---- MODULE Spec2Model ----
(***************************************************************************)
(* Club-management API (express + mongodb), first program of               *)
(* src/unnamed/part_000 (lines 1-910).                                     *)
(*                                                                         *)
(* The state is the six collections the handlers write and the requests    *)
(* in flight.  Every request runs its route's middleware chain; each       *)
(* action is one storage (or identity-authority) round trip together with  *)
(* the synchronous code that follows it up to the next await, so requests  *)
(* interleave exactly at the awaits of the source.                         *)
(***************************************************************************)
EXTENDS Integers, Sequences, FiniteSets, TLC

VARIABLES users, clubs, events, memberships, club_managers, club_roles,
          reqs, faults

db == <<users, clubs, events, memberships, club_managers, club_roles>>
vars == <<users, clubs, events, memberships, club_managers, club_roles, reqs, faults>>

(***************************************************************************)
(* Bounds of the model.                                                    *)
(***************************************************************************)
\* requests accepted in one behaviour
MaxRequests == 2
\* requests accepted in one behaviour of the credential verifier's specification
MaxVerifierRequests == 1
\* characters of an Authorization header value
MaxHeaderLen == 3

(***************************************************************************)
(* Values.                                                                 *)
(***************************************************************************)
\* a JavaScript undefined: an absent header, body field or document field
Undefined == "undefined"
\* what the driver stores for an undefined value of an update document
Null == "null"
\* response status 0: no response sent yet
NoResponse == 0

Alice == "alice@x.com"
Bob == "bob@x.com"
Root == "root@x.com"
Emails == {Alice, Bob, Root}

\* The identity authority: the ID tokens it accepts and the email claim of each.
TokenEmail == [ta |-> Alice, tb |-> Bob, tr |-> Root]
GoodTokens == DOMAIN TokenEmail
\* header characters: the scheme word, a blank, the tokens above, a forged token
HeaderAlphabet == {"Bearer", " ", "tr", "forged"}

\* `new ObjectId(id)` throws on a malformed id; documents are numbered from 1
MalformedId == 0
\* a request whose path carries no :id
NoParam == -1
IsValidObjectId(id) == id # MalformedId

\* a body that carries no clubId
NoClubId == 0

\* !v for a string value
Falsy(v) == v = Undefined \/ v = ""

(***************************************************************************)
(* Storage helpers: findOne / updateOne act on the first matching          *)
(* document in natural (insertion) order.                                  *)
(***************************************************************************)
\* S: the positions of the documents a filter matches (0: no match)
FindIdx(S) == IF S = {} THEN 0 ELSE CHOOSE i \in S : \A j \in S : i <= j

\* the _id filter { _id: new ObjectId(id) }
ById(coll, id) == IF id \in 1..Len(coll) THEN id ELSE 0

\* $set of the fields a JSON body carries onto a stored document
SetFields(doc, body) ==
    [f \in DOMAIN doc |->
        IF f \in DOMAIN body /\ body[f] # Undefined THEN body[f] ELSE doc[f]]

\* an undefined value in an update document is written as null
ToBson(v) == IF v = Undefined THEN Null ELSE v

\* the outcomes of one storage round trip
DbOutcomes == IF faults THEN {"ok", "throw"} ELSE {"ok"}

(***************************************************************************)
(* Requests.                                                               *)
(***************************************************************************)
NoBody == [status |-> Undefined, email |-> Undefined, name |-> Undefined,
           reason |-> Undefined, photoURL |-> Undefined, role |-> Undefined,
           userEmail |-> Undefined, clubId |-> NoClubId,
           clubName |-> Undefined, title |-> Undefined]

NoLoc == [email |-> Undefined, date |-> 0, status |-> Undefined, modifiedCount |-> 0]

\* new Date(): the logical time is the number of requests accepted so far
Now == Len(reqs)

\* the middleware chain each route is registered with
Chain(route) ==
    CASE route = "PATCH /users/admin/:id" -> <<"verifyFBToken", "verifySuperAdmin", "handler">>
      [] route = "PATCH /club-managers/:id" -> <<"verifyFBToken", "handler">>
      [] route = "PATCH /clubs/:id/members/:email/status" -> <<"verifyFBToken", "handler">>
      [] route = "POST /memberships" -> <<"verifyFBToken", "handler">>
      [] route = "PATCH /memberships/:id" -> <<"verifyFBToken", "handler">>
      [] route = "DELETE /memberships/:id" -> <<"verifyFBToken", "handler">>
      [] route = "PATCH /clubs/:id" -> <<"verifyFBToken", "handler">>
      [] route = "POST /clubs" -> <<"handler">>
      [] route = "POST /events" -> <<"verifyFBToken", "handler">>
      [] route = "PUT /events/:id" -> <<"verifyFBToken", "handler">>
      [] route = "DELETE /events/:id" -> <<"verifyFBToken", "handler">>
      [] route = "PATCH /events/:id" -> <<"verifyFBToken", "handler">>
      [] route = "verifyClubPermission /:id" -> <<"verifyFBToken", "verifyClubPermission", "next">>
      [] route = "POST /club-managers" -> <<"handler">>
      [] route = "POST /users" -> <<"handler">>
      [] route = "PATCH /users/:email" -> <<"verifyFBToken", "handler">>
      [] route = "GET /payments" -> <<"verifyFBToken", "handler">>
      [] OTHER -> <<"handler">>

\* next(): the stage after `stage` in the route's chain
NextStage(route, stage) ==
    LET c == Chain(route)
        i == CHOOSE k \in 1..Len(c) : c[k] = stage
    IN  c[i + 1]

NewRequest(route, id, email, body, authorization) ==
    [route |-> route, id |-> id, email |-> email, body |-> body,
     authorization |-> authorization,
     pc |-> Chain(route)[1], user |-> Undefined, res |-> NoResponse,
     loc |-> NoLoc,
     \* history, read by the properties only: the stages that ran, the time of
     \* arrival and what was stored when the request arrived
     ran |-> {}, arrivedAt |-> Len(reqs) + 1,
     pre |-> [club_managers |-> club_managers, memberships |-> memberships,
              club_roles |-> club_roles]]

AcceptUpTo(rq, n) ==
    /\ Len(reqs) < n
    /\ reqs' = Append(reqs, rq)
    /\ UNCHANGED <<db, faults>>

Accept(rq) == AcceptUpTo(rq, MaxRequests)

Requests == 1..Len(reqs)
\* a request is over once answered ("done"), left without an answer ("hung") or
\* handed by a guard to whatever is mounted behind it ("next")
InFlight == {r \in Requests : reqs[r].pc \notin {"done", "hung", "next"}}

\* res.status(code).send(...): the request is answered
Answer(r, code) ==
    reqs' = [reqs EXCEPT ![r].pc = "done", ![r].res = code,
                         ![r].ran = @ \cup {reqs[r].pc}]

(***************************************************************************)
(* verifyFBToken (lines 21-44)                                             *)
(***************************************************************************)
\* String.prototype.split(" "): the pieces between the blanks
RECURSIVE Split(_)
Split(s) ==
    IF s = <<>> THEN << <<>> >>
    ELSE LET rest == Split(Tail(s))
         IN  IF Head(s) = " "
             THEN << <<>> >> \o rest
             ELSE << <<Head(s)>> \o rest[1] >> \o Tail(rest)

\* a request header: absent, or a string (a sequence of characters)
NoHeader == [present |-> FALSE, value |-> <<>>]
Header(chars) == [present |-> TRUE, value |-> chars]
Bearer(token) == Header(<<"Bearer", " ", token>>)

\* authHeader.split(" ")[1] is a non-empty string
HasToken(parts) == Len(parts) >= 2 /\ parts[2] # <<>>

\* admin.auth().verifyIdToken(token) resolves for the tokens the authority issued
VerifyIdTokenOk(token) == Len(token) = 1 /\ token[1] \in GoodTokens

\* a verifier without the `if (!token)` check: a missing token goes to the
\* identity authority, which rejects it
VerifyFBTokenResultUnchecked(authHeader) ==
    IF ~authHeader.present \/ authHeader.value = <<>> THEN 401
    ELSE IF ~HasToken(Split(authHeader.value)) THEN 403
    ELSE IF VerifyIdTokenOk(Split(authHeader.value)[2]) THEN 0
    ELSE 403

\* the status verifyFBToken answers with, or 0 when it calls next()
VerifyFBTokenResult(authHeader) ==
    IF ~authHeader.present \/ authHeader.value = <<>> THEN 401
    ELSE IF ~HasToken(Split(authHeader.value)) THEN 401
    ELSE IF VerifyIdTokenOk(Split(authHeader.value)[2]) THEN 0
    ELSE 403

\* decodedToken.email
DecodedEmail(authHeader) == TokenEmail[Split(authHeader.value)[2][1]]

\* every header value of at most n characters
RECURSIVE HeaderValues(_)
HeaderValues(n) ==
    IF n = 0 THEN {<<>>}
    ELSE LET shorter == HeaderValues(n - 1)
         IN  shorter \cup {Append(h, c) : h \in shorter, c \in HeaderAlphabet}

AllHeaders == {NoHeader} \cup {Header(h) : h \in HeaderValues(MaxHeaderLen)}

\* request r carries a header verifyFBToken accepts
Authenticated(r) == VerifyFBTokenResult(reqs[r].authorization) = 0

\* a verifier that calls next() after answering a failed verification
verifyFBTokenFallsThrough(r) ==
    /\ r \in Requests
    /\ reqs[r].pc = "verifyFBToken"
    /\ LET code == VerifyFBTokenResult(reqs[r].authorization)
       IN  reqs' = [reqs EXCEPT
               ![r].user = IF code = 0 THEN DecodedEmail(reqs[r].authorization) ELSE Undefined,
               ![r].res = code,
               ![r].pc = NextStage(reqs[r].route, "verifyFBToken"),
               ![r].ran = @ \cup {"verifyFBToken"}]
    /\ UNCHANGED <<db, faults>>

verifyFBToken(r) ==
    /\ r \in Requests
    /\ reqs[r].pc = "verifyFBToken"
    /\ \E o \in DbOutcomes :
         LET code == VerifyFBTokenResult(reqs[r].authorization)
         IN  IF code # 0 THEN Answer(r, code)
             ELSE IF o = "throw"
             THEN \* verifyIdToken rejects for any reason: the catch answers 403
                  Answer(r, 403)
             ELSE reqs' = [reqs EXCEPT
                      ![r].user = DecodedEmail(reqs[r].authorization),
                      ![r].pc = NextStage(reqs[r].route, "verifyFBToken"),
                      ![r].ran = @ \cup {"verifyFBToken"}]
    /\ UNCHANGED <<db, faults>>


(***************************************************************************)
(* verifySuperAdmin (lines 74-83)                                          *)
(***************************************************************************)
\* the document findOne({ email }) returns, as an index (0: null)
FindUser(email) == FindIdx({i \in 1..Len(users) : users[i].email = email})

\* a guard that fails open when the caller has no user record
SuperAdminAdmitsUnknown(i) == i = 0 \/ users[i].role = "super_admin"

\* user?.role === 'super_admin'
SuperAdminAdmits(i) == i # 0 /\ users[i].role = "super_admin"

\* a guard that hands the request on after answering 403
verifySuperAdminFallsThrough(r) ==
    /\ r \in Requests
    /\ reqs[r].pc = "verifySuperAdmin"
    /\ reqs' = [reqs EXCEPT
             ![r].res = IF SuperAdminAdmits(FindUser(reqs[r].user)) THEN NoResponse ELSE 403,
             ![r].pc = NextStage(reqs[r].route, "verifySuperAdmin"),
             ![r].ran = @ \cup {"verifySuperAdmin"}]
    /\ UNCHANGED <<db, faults>>

\* The middleware awaits findOne outside any try/catch, so a failed lookup
\* rejects the promise the middleware returns.  express 4 ignores that promise
\* and the request is never answered; express 5 passes the rejection to its
\* error handler, which answers 500.  The program does not pin the version.
UnhandledRejectionOutcomes == {"hung", "error"}

verifySuperAdmin(r) ==
    /\ r \in Requests
    /\ reqs[r].pc = "verifySuperAdmin"
    /\ \E o \in DbOutcomes, u \in UnhandledRejectionOutcomes :
         IF o = "throw"
         THEN IF u = "hung"
              THEN reqs' = [reqs EXCEPT ![r].pc = "hung",
                                        ![r].ran = @ \cup {"verifySuperAdmin"}]
              ELSE Answer(r, 500)
         ELSE IF SuperAdminAdmits(FindUser(reqs[r].user))
         THEN reqs' = [reqs EXCEPT
                  ![r].pc = NextStage(reqs[r].route, "verifySuperAdmin"),
                  ![r].ran = @ \cup {"verifySuperAdmin"}]
         ELSE Answer(r, 403)
    /\ UNCHANGED <<db, faults>>

(***************************************************************************)
(* verifyClubPermission (lines 85-105).  No route of the program mounts    *)
(* it; it is applied behind verifyFBToken, as its use of req.user          *)
(* requires, and "next" stands for whatever is mounted behind it.          *)
(***************************************************************************)
RequestClubPermission(ids, bodies, auths) ==
    \E id \in ids, b \in bodies, a \in auths :
        Accept(NewRequest("verifyClubPermission /:id", id, Undefined, b, a))

\* a guard that also lets every caller through to an approved club
ClubOwnerAdmitsApproved(club, email) ==
    club.userEmail = email \/ club.status = "approved"

\* club.userEmail === email
ClubOwnerAdmits(club, email) == club.userEmail = email

verifyClubPermission(r) ==
    /\ r \in Requests
    /\ reqs[r].pc = "verifyClubPermission"
    /\ \E o \in DbOutcomes :
         IF reqs[r].id = NoParam THEN Answer(r, 400)
         ELSE IF ~IsValidObjectId(reqs[r].id) \/ o = "throw" THEN Answer(r, 500)
         ELSE IF ById(clubs, reqs[r].id) = 0 THEN Answer(r, 404)
         ELSE IF ClubOwnerAdmits(clubs[reqs[r].id], reqs[r].user)
         THEN reqs' = [reqs EXCEPT
                  ![r].pc = NextStage(reqs[r].route, "verifyClubPermission"),
                  ![r].ran = @ \cup {"verifyClubPermission"}]
         ELSE Answer(r, 403)
    /\ UNCHANGED <<db, faults>>

\* a stored user: its email, its global role and its profile
User(email, role) == [email |-> email, role |-> role, name |-> "n0", photoURL |-> "p0"]

\* a stored club: its owner's email, its status and its name
Club(userEmail, status) == [userEmail |-> userEmail, status |-> status, clubName |-> "Chess"]

(***************************************************************************)
(* POST /users (lines 117-131)                                             *)
(***************************************************************************)
RequestPostUsers(bodies) ==
    \E b \in bodies : Accept(NewRequest("POST /users", MalformedId, Undefined, b, NoHeader))

\* newUser.role = 'member'; findOne({ email }); 400 when a user exists
PostUsersFind(r) ==
    /\ r \in Requests
    /\ reqs[r].route = "POST /users" /\ reqs[r].pc = "handler"
    /\ \E o \in DbOutcomes :
         IF o = "throw" THEN Answer(r, 500)
         ELSE IF FindUser(reqs[r].body.email) # 0 THEN Answer(r, 400)
         ELSE reqs' = [reqs EXCEPT ![r].pc = "insertUser",
                                   ![r].body.role = "member",
                                   ![r].ran = @ \cup {"handler"}]
    /\ UNCHANGED <<db, faults>>

PostUsersInsert(r) ==
    /\ r \in Requests
    /\ reqs[r].route = "POST /users" /\ reqs[r].pc = "insertUser"
    /\ \E o \in DbOutcomes :
         IF o = "throw" THEN Answer(r, 500) /\ UNCHANGED users
         ELSE /\ users' = Append(users, [email |-> reqs[r].body.email,
                                         role |-> reqs[r].body.role,
                                         name |-> ToBson(reqs[r].body.name),
                                         photoURL |-> ToBson(reqs[r].body.photoURL)])
              /\ Answer(r, 201)
    /\ UNCHANGED <<clubs, events, memberships, club_managers, club_roles, faults>>

(***************************************************************************)
(* PATCH /users/admin/:id (lines 194-210)                                  *)
(***************************************************************************)
RequestPatchUsersAdmin(ids, bodies, auths) ==
    \E id \in ids, b \in bodies, a \in auths :
        Accept(NewRequest("PATCH /users/admin/:id", id, Undefined, b, a))

\* if (role) updateDoc.$set.role = role
AdminUpdatedUser(user, body) ==
    IF Falsy(body.role) THEN user ELSE [user EXCEPT !.role = body.role]

PatchUsersAdmin(r) ==
    /\ r \in Requests
    /\ reqs[r].route = "PATCH /users/admin/:id" /\ reqs[r].pc = "handler"
    /\ \E o \in DbOutcomes :
         IF ~IsValidObjectId(reqs[r].id) \/ o = "throw"
         THEN Answer(r, 500) /\ UNCHANGED users
         ELSE /\ users' = IF ById(users, reqs[r].id) = 0 THEN users
                          ELSE [users EXCEPT ![reqs[r].id] = AdminUpdatedUser(@, reqs[r].body)]
              /\ Answer(r, 200)
    /\ UNCHANGED <<clubs, events, memberships, club_managers, club_roles, faults>>

(***************************************************************************)
(* PATCH /users/:email (lines 230-247)                                     *)
(***************************************************************************)
RequestPatchUserProfile(emails, bodies, auths) ==
    \E e \in emails, b \in bodies, a \in auths :
        Accept(NewRequest("PATCH /users/:email", MalformedId, e, b, a))

\* a profile update that stores every field of the body
UpdatedProfileFromBody(user, body) == SetFields(user, body)

\* $set: { name: updatedUser.name, photoURL: updatedUser.photoURL }
UpdatedProfile(user, body) ==
    [user EXCEPT !.name = ToBson(body.name), !.photoURL = ToBson(body.photoURL)]

PatchUserProfile(r) ==
    /\ r \in Requests
    /\ reqs[r].route = "PATCH /users/:email" /\ reqs[r].pc = "handler"
    /\ \E o \in DbOutcomes :
         IF o = "throw" THEN Answer(r, 500) /\ UNCHANGED users
         ELSE LET i == FindUser(reqs[r].email)
              IN  /\ users' = IF i = 0 THEN users
                              ELSE [users EXCEPT ![i] = UpdatedProfile(@, reqs[r].body)]
                  /\ Answer(r, 200)
    /\ UNCHANGED <<clubs, events, memberships, club_managers, club_roles, faults>>

(***************************************************************************)
(* GET /payments (lines 779-794).  The handler only reads; its catch logs  *)
(* the error and sends nothing.                                            *)
(***************************************************************************)
RequestGetPayments(auths) ==
    \E a \in auths : Accept(NewRequest("GET /payments", MalformedId, Undefined, NoBody, a))

GetPayments(r) ==
    /\ r \in Requests
    /\ reqs[r].route = "GET /payments" /\ reqs[r].pc = "handler"
    /\ \E o \in DbOutcomes :
         IF o = "throw"
         THEN reqs' = [reqs EXCEPT ![r].pc = "hung", ![r].ran = @ \cup {"handler"}]
         ELSE Answer(r, 200)
    /\ UNCHANGED <<db, faults>>

(***************************************************************************)
(* POST /club-managers (lines 799-841)                                     *)
(***************************************************************************)
RequestPostClubManagers(bodies) ==
    \E b \in bodies :
        Accept(NewRequest("POST /club-managers", MalformedId, Undefined, b, NoHeader))

\* findOne({ email: application.email })
FindApplication(email) == FindIdx({i \in 1..Len(club_managers) : club_managers[i].email = email})

\* the branch taken on the application found: 0 insert, 1 re-apply, 409 conflict
ApplyBranch(i) ==
    IF i = 0 THEN 0
    ELSE IF club_managers[i].status = "rejected" THEN 1
    ELSE 409

PostClubManagersFind(r) ==
    /\ r \in Requests
    /\ reqs[r].route = "POST /club-managers" /\ reqs[r].pc = "handler"
    /\ \E o \in DbOutcomes :
         IF Falsy(reqs[r].body.name) \/ Falsy(reqs[r].body.email) THEN Answer(r, 400)
         ELSE IF o = "throw" THEN Answer(r, 500)
         ELSE LET i == FindApplication(reqs[r].body.email)
                  br == ApplyBranch(i)
              IN  IF br = 409 THEN Answer(r, 409)
                  ELSE reqs' = [reqs EXCEPT
                           ![r].pc = IF br = 1 THEN "reapply" ELSE "insertApplication",
                           ![r].loc.status = IF i = 0 THEN Undefined ELSE club_managers[i].status,
                           ![r].loc.date = Now,
                           ![r].ran = @ \cup {"handler"}]
    /\ UNCHANGED <<db, faults>>

\* a re-application that keeps the date of the first application
ReapplyDocKeepsDate(doc, body, date) ==
    [doc EXCEPT !.name = ToBson(body.name), !.reason = ToBson(body.reason),
                !.photoURL = ToBson(body.photoURL), !.status = "pending"]

\* $set: { name, reason, photoURL, status: 'pending', appliedAt: new Date() }
ReapplyDoc(doc, body, date) ==
    [doc EXCEPT !.name = ToBson(body.name), !.reason = ToBson(body.reason),
                !.photoURL = ToBson(body.photoURL), !.status = "pending",
                !.appliedAt = date]

\* updateOne({ email: application.email }, updateDoc), answered 200
PostClubManagersReapply(r) ==
    /\ r \in Requests
    /\ reqs[r].route = "POST /club-managers" /\ reqs[r].pc = "reapply"
    /\ \E o \in DbOutcomes :
         IF o = "throw" THEN Answer(r, 500) /\ UNCHANGED club_managers
         ELSE LET i == FindApplication(reqs[r].body.email)
              IN  /\ club_managers' =
                        IF i = 0 THEN club_managers
                        ELSE [club_managers EXCEPT
                                 ![i] = ReapplyDoc(@, reqs[r].body, reqs[r].loc.date)]
                  /\ Answer(r, 200)
    /\ UNCHANGED <<users, clubs, events, memberships, club_roles, faults>>

\* application.status = 'pending'; application.appliedAt = new Date(); insertOne
NewApplication(body, date) ==
    [email |-> body.email, name |-> body.name, reason |-> body.reason,
     photoURL |-> body.photoURL, status |-> "pending", appliedAt |-> date]

PostClubManagersInsert(r) ==
    /\ r \in Requests
    /\ reqs[r].route = "POST /club-managers" /\ reqs[r].pc = "insertApplication"
    /\ \E o \in DbOutcomes :
         IF o = "throw" THEN Answer(r, 500) /\ UNCHANGED club_managers
         ELSE /\ club_managers' =
                    Append(club_managers, NewApplication(reqs[r].body, reqs[r].loc.date))
              /\ Answer(r, 201)
    /\ UNCHANGED <<users, clubs, events, memberships, club_roles, faults>>

(***************************************************************************)
(* PATCH /club-managers/:id (lines 864-891)                                *)
(***************************************************************************)
RequestPatchClubManager(ids, bodies, auths) ==
    \E id \in ids, b \in bodies, a \in auths :
        Accept(NewRequest("PATCH /club-managers/:id", id, Undefined, b, a))

\* updateOne(filter, { $set: updatedManager }): every field of the body is stored
PatchClubManagerUpdate(r) ==
    /\ r \in Requests
    /\ reqs[r].route = "PATCH /club-managers/:id" /\ reqs[r].pc = "handler"
    /\ \E o \in DbOutcomes :
         IF ~IsValidObjectId(reqs[r].id) \/ o = "throw"
         THEN Answer(r, 500) /\ UNCHANGED club_managers
         ELSE /\ club_managers' =
                    IF ById(club_managers, reqs[r].id) = 0 THEN club_managers
                    ELSE [club_managers EXCEPT ![reqs[r].id] = SetFields(@, reqs[r].body)]
              /\ IF reqs[r].body.status = "approved"
                 THEN reqs' = [reqs EXCEPT ![r].pc = "findApplication",
                                           ![r].ran = @ \cup {"handler"}]
                 ELSE Answer(r, 200)
    /\ UNCHANGED <<users, clubs, events, memberships, club_roles, faults>>

\* the email the promotion is keyed by: that of the application read back
PromotionEmail(application) == application.email

\* application = findOne(filter); if (application && application.email) ...
PatchClubManagerFind(r) ==
    /\ r \in Requests
    /\ reqs[r].route = "PATCH /club-managers/:id" /\ reqs[r].pc = "findApplication"
    /\ \E o \in DbOutcomes :
         IF o = "throw" THEN Answer(r, 500)
         ELSE LET i == ById(club_managers, reqs[r].id)
              IN  IF i = 0 \/ Falsy(club_managers[i].email) THEN Answer(r, 200)
                  ELSE reqs' = [reqs EXCEPT
                           ![r].pc = "promote",
                           ![r].loc.email = PromotionEmail(club_managers[i]),
                           ![r].ran = @ \cup {"findApplication"}]
    /\ UNCHANGED <<db, faults>>

\* $set: { role: 'club_manager' } on the user found
Promoted(user) == [user EXCEPT !.role = "club_manager"]

\* a promotion that undoes the approval when its write fails
PatchClubManagerPromoteRollsBack(r) ==
    /\ r \in Requests
    /\ reqs[r].route = "PATCH /club-managers/:id" /\ reqs[r].pc = "promote"
    /\ \E o \in DbOutcomes :
         IF o = "throw"
         THEN /\ Answer(r, 500) /\ UNCHANGED users
              /\ club_managers' = [club_managers EXCEPT ![reqs[r].id].status = "pending"]
         ELSE LET i == FindUser(reqs[r].loc.email)
              IN  /\ users' = IF i = 0 THEN users
                              ELSE [users EXCEPT ![i] = Promoted(@)]
                  /\ Answer(r, 200) /\ UNCHANGED club_managers
    /\ UNCHANGED <<clubs, events, memberships, club_roles, faults>>

\* usersCollection.updateOne({ email: application.email }, ...), answered 200
PatchClubManagerPromote(r) ==
    /\ r \in Requests
    /\ reqs[r].route = "PATCH /club-managers/:id" /\ reqs[r].pc = "promote"
    /\ \E o \in DbOutcomes :
         IF o = "throw" THEN Answer(r, 500) /\ UNCHANGED users
         ELSE LET i == FindUser(reqs[r].loc.email)
              IN  /\ users' = IF i = 0 THEN users
                              ELSE [users EXCEPT ![i] = Promoted(@)]
                  /\ Answer(r, 200)
    /\ UNCHANGED <<clubs, events, memberships, club_managers, club_roles, faults>>

(***************************************************************************)
(* PATCH /clubs/:id/members/:email/status (lines 422-457)                  *)
(***************************************************************************)
RequestPatchMemberStatus(ids, emails, bodies, auths) ==
    \E id \in ids, e \in emails, b \in bodies, a \in auths :
        Accept(NewRequest("PATCH /clubs/:id/members/:email/status", id, e, b, a))

\* a stored membership that DELETE /memberships/:id has not removed
Live(m) == ~m.deleted

\* the membership the filter { clubId, userEmail } selects in `coll` (0: none)
FindMembership(coll, clubId, userEmail) ==
    FindIdx({i \in 1..Len(coll) : /\ Live(coll[i]) /\ coll[i].clubId = clubId
                                   /\ coll[i].userEmail = userEmail})

\* The handler's update document reads `permissions: MEMBER_PERMISSIONS` (line
\* 444).  The program declares no such identifier (the only occurrence in the
\* file is this use), so evaluating it throws a ReferenceError.
MEMBER_PERMISSIONS == [declared |-> FALSE, value |-> {}]

\* the role grants of (clubId, userEmail) in `coll`
GrantsOf(coll, clubId, userEmail) ==
    {g \in 1..Len(coll) : coll[g].clubId = clubId /\ coll[g].userEmail = userEmail}

\* club_roles.updateOne({ clubId, userEmail },
\*    { $set: { role, permissions }, $setOnInsert: { assignedAt } }, { upsert: true })
UpsertRoleGrant(coll, clubId, userEmail, date) ==
    LET g == FindIdx({i \in 1..Len(coll) : coll[i].clubId = clubId /\ coll[i].userEmail = userEmail})
    IN  IF g = 0
        THEN Append(coll, [clubId |-> clubId, userEmail |-> userEmail, role |-> "member",
                           permissions |-> MEMBER_PERMISSIONS.value, assignedAt |-> date])
        ELSE [coll EXCEPT ![g].role = "member",
                          ![g].permissions = MEMBER_PERMISSIONS.value]

\* modifiedCount of { $set: { status } } on the membership selected
MemberModifiedCount(i, status) ==
    IF i # 0 /\ memberships[i].status # status THEN 1 ELSE 0

PatchMemberStatus(r) ==
    /\ r \in Requests
    /\ reqs[r].route = "PATCH /clubs/:id/members/:email/status"
    /\ reqs[r].pc \in {"handler", "upsertRoleGrant"}
    /\ \E o \in DbOutcomes :
         IF reqs[r].pc = "handler"
         THEN /\ UNCHANGED club_roles
              /\ IF reqs[r].body.status \notin {"active", "rejected"}
                 THEN Answer(r, 400) /\ UNCHANGED memberships
                 ELSE IF o = "throw"
                 THEN Answer(r, 500) /\ UNCHANGED memberships
                 ELSE LET i == FindMembership(memberships, reqs[r].id, reqs[r].email)
                          n == MemberModifiedCount(i, reqs[r].body.status)
                      IN  /\ memberships' =
                                IF i = 0 THEN memberships
                                ELSE [memberships EXCEPT ![i].status = reqs[r].body.status]
                          /\ IF n > 0 /\ reqs[r].body.status = "active"
                             THEN IF MEMBER_PERMISSIONS.declared
                                  THEN reqs' = [reqs EXCEPT ![r].pc = "upsertRoleGrant",
                                                            ![r].loc.date = Now,
                                                            ![r].loc.modifiedCount = n,
                                                            ![r].ran = @ \cup {"handler"}]
                                  ELSE \* ReferenceError, caught by the handler's catch
                                       reqs' = [reqs EXCEPT ![r].pc = "done", ![r].res = 500,
                                                            ![r].loc.modifiedCount = n,
                                                            ![r].ran = @ \cup {"handler"}]
                             ELSE reqs' = [reqs EXCEPT ![r].pc = "done", ![r].res = 200,
                                                       ![r].loc.modifiedCount = n,
                                                       ![r].ran = @ \cup {"handler"}]
         ELSE /\ UNCHANGED memberships
              /\ IF o = "throw"
                 THEN Answer(r, 500) /\ UNCHANGED club_roles
                 ELSE /\ club_roles' = UpsertRoleGrant(club_roles, reqs[r].id,
                                                       reqs[r].email, reqs[r].loc.date)
                      /\ Answer(r, 200)
    /\ UNCHANGED <<users, clubs, events, club_managers, faults>>

(***************************************************************************)
(* POST /memberships (lines 631-664)                                       *)
(***************************************************************************)
RequestPostMemberships(bodies, auths) ==
    \E b \in bodies, a \in auths :
        Accept(NewRequest("POST /memberships", MalformedId, Undefined, b, a))

\* findOne({ userEmail, clubId, status: { $in: ['active', 'pending'] } })
FindOpenMembership(clubId, userEmail) ==
    FindIdx({i \in 1..Len(memberships) :
                /\ Live(memberships[i])
                /\ memberships[i].clubId = clubId /\ memberships[i].userEmail = userEmail
                /\ memberships[i].status \in {"active", "pending"}})

\* if (!membership.status) membership.status = 'pending'
NewMembershipStatus(body) == IF Falsy(body.status) THEN "pending" ELSE body.status

PostMembershipsFind(r) ==
    /\ r \in Requests
    /\ reqs[r].route = "POST /memberships" /\ reqs[r].pc = "handler"
    /\ \E o \in DbOutcomes :
         IF Falsy(reqs[r].body.userEmail) \/ reqs[r].body.clubId = NoClubId
         THEN Answer(r, 400)
         ELSE IF o = "throw" THEN Answer(r, 500)
         ELSE IF FindOpenMembership(reqs[r].body.clubId, reqs[r].body.userEmail) # 0
         THEN Answer(r, 409)
         ELSE reqs' = [reqs EXCEPT ![r].pc = "insertMembership",
                                   ![r].loc.status = NewMembershipStatus(reqs[r].body),
                                   ![r].loc.date = Now,
                                   ![r].ran = @ \cup {"handler"}]
    /\ UNCHANGED <<db, faults>>

PostMembershipsInsert(r) ==
    /\ r \in Requests
    /\ reqs[r].route = "POST /memberships" /\ reqs[r].pc = "insertMembership"
    /\ \E o \in DbOutcomes :
         IF o = "throw" THEN Answer(r, 500) /\ UNCHANGED memberships
         ELSE /\ memberships' = Append(memberships,
                    [clubId |-> reqs[r].body.clubId, userEmail |-> reqs[r].body.userEmail,
                     status |-> reqs[r].loc.status, joinedAt |-> reqs[r].loc.date,
                     deleted |-> FALSE])
              /\ Answer(r, 201)
    /\ UNCHANGED <<users, clubs, events, club_managers, club_roles, faults>>

(***************************************************************************)
(* PATCH /memberships/:id (lines 667-683)                                  *)
(***************************************************************************)
RequestPatchMembership(ids, bodies, auths) ==
    \E id \in ids, b \in bodies, a \in auths :
        Accept(NewRequest("PATCH /memberships/:id", id, Undefined, b, a))

\* the membership the filter { _id } selects (0: none)
MembershipById(id) ==
    IF ById(memberships, id) # 0 /\ Live(memberships[id]) THEN id ELSE 0

\* an update of a membership that also writes the member's role grant
PatchMembershipGrants(r) ==
    /\ r \in Requests
    /\ reqs[r].route = "PATCH /memberships/:id" /\ reqs[r].pc = "handler"
    /\ \E o \in DbOutcomes :
         IF ~IsValidObjectId(reqs[r].id) \/ o = "throw" \/ MembershipById(reqs[r].id) = 0
         THEN Answer(r, 500) /\ UNCHANGED <<memberships, club_roles>>
         ELSE /\ memberships' =
                    [memberships EXCEPT ![reqs[r].id].status = ToBson(reqs[r].body.status)]
              /\ club_roles' = Append(club_roles,
                    [clubId |-> memberships[reqs[r].id].clubId,
                     userEmail |-> memberships[reqs[r].id].userEmail,
                     role |-> "member", permissions |-> {"view"}, assignedAt |-> Now])
              /\ Answer(r, 200)
    /\ UNCHANGED <<users, clubs, events, club_managers, faults>>

\* $set: { status: updatedMembership.status }
PatchMembership(r) ==
    /\ r \in Requests
    /\ reqs[r].route = "PATCH /memberships/:id" /\ reqs[r].pc = "handler"
    /\ \E o \in DbOutcomes :
         IF ~IsValidObjectId(reqs[r].id) \/ o = "throw"
         THEN Answer(r, 500) /\ UNCHANGED memberships
         ELSE /\ memberships' =
                    IF MembershipById(reqs[r].id) = 0 THEN memberships
                    ELSE [memberships EXCEPT ![reqs[r].id].status = ToBson(reqs[r].body.status)]
              /\ Answer(r, 200)
    /\ UNCHANGED <<users, clubs, events, club_managers, club_roles, faults>>

(***************************************************************************)
(* DELETE /memberships/:id (lines 686-696)                                 *)
(***************************************************************************)
RequestDeleteMembership(ids, auths) ==
    \E id \in ids, a \in auths :
        Accept(NewRequest("DELETE /memberships/:id", id, Undefined, NoBody, a))

\* a leave that also retracts the member's role grants
DeleteMembershipRetracts(r) ==
    /\ r \in Requests
    /\ reqs[r].route = "DELETE /memberships/:id" /\ reqs[r].pc = "handler"
    /\ IF ~IsValidObjectId(reqs[r].id) \/ MembershipById(reqs[r].id) = 0
       THEN /\ Answer(r, IF IsValidObjectId(reqs[r].id) THEN 200 ELSE 500)
            /\ UNCHANGED <<memberships, club_roles>>
       ELSE /\ memberships' = [memberships EXCEPT ![reqs[r].id].deleted = TRUE]
            /\ club_roles' = SelectSeq(club_roles,
                  LAMBDA g : ~(/\ g.clubId = memberships[reqs[r].id].clubId
                               /\ g.userEmail = memberships[reqs[r].id].userEmail))
            /\ Answer(r, 200)
    /\ UNCHANGED <<users, clubs, events, club_managers, faults>>

DeleteMembership(r) ==
    /\ r \in Requests
    /\ reqs[r].route = "DELETE /memberships/:id" /\ reqs[r].pc = "handler"
    /\ \E o \in DbOutcomes :
         IF ~IsValidObjectId(reqs[r].id) \/ o = "throw"
         THEN Answer(r, 500) /\ UNCHANGED memberships
         ELSE /\ memberships' =
                    IF MembershipById(reqs[r].id) = 0 THEN memberships
                    ELSE [memberships EXCEPT ![reqs[r].id].deleted = TRUE]
              /\ Answer(r, 200)
    /\ UNCHANGED <<users, clubs, events, club_managers, club_roles, faults>>

(***************************************************************************)
(* POST /clubs (lines 252-262)                                             *)
(***************************************************************************)
RequestPostClubs(bodies) ==
    \E b \in bodies : Accept(NewRequest("POST /clubs", MalformedId, Undefined, b, NoHeader))

\* newClub = req.body; newClub.status = 'pending'
NewClub(body) ==
    [userEmail |-> body.userEmail, status |-> "pending", clubName |-> body.clubName]

PostClubs(r) ==
    /\ r \in Requests
    /\ reqs[r].route = "POST /clubs" /\ reqs[r].pc = "handler"
    /\ \E o \in DbOutcomes :
         IF o = "throw" THEN Answer(r, 500) /\ UNCHANGED clubs
         ELSE /\ clubs' = Append(clubs, NewClub(reqs[r].body))
              /\ Answer(r, 201)
    /\ UNCHANGED <<users, events, memberships, club_managers, club_roles, faults>>

(***************************************************************************)
(* PATCH /clubs/:id (lines 330-358).  description, location, category and  *)
(* bannerImage are copied exactly as clubName is, and membershipFee when   *)
(* it is defined; clubName stands for them.                                *)
(***************************************************************************)
RequestPatchClub(ids, bodies, auths) ==
    \E id \in ids, b \in bodies, a \in auths :
        Accept(NewRequest("PATCH /clubs/:id", id, Undefined, b, a))

\* the fields of updateDoc.$set: `if (updatedClub.f) updateDoc.$set.f = ...`
ClubSetFields(body) == {f \in {"status", "clubName"} : ~Falsy(body[f])}

\* a club update that stores every field of the body
UpdatedClubFromBody(club, body) == SetFields(club, body)

\* the club after updateOne(filter, updateDoc)
UpdatedClub(club, body) ==
    [f \in DOMAIN club |-> IF f \in ClubSetFields(body) THEN body[f] ELSE club[f]]

\* an update whose $set is empty is rejected by servers older than 5.0 and is
\* a no-op on later ones
EmptySetOutcomes == {"ok", "throw"}

PatchClub(r) ==
    /\ r \in Requests
    /\ reqs[r].route = "PATCH /clubs/:id" /\ reqs[r].pc = "handler"
    /\ \E o \in DbOutcomes, e \in EmptySetOutcomes :
         IF ~IsValidObjectId(reqs[r].id) \/ o = "throw"
         THEN Answer(r, 500) /\ UNCHANGED clubs
         ELSE IF ClubSetFields(reqs[r].body) = {} /\ e = "throw"
         THEN Answer(r, 500) /\ UNCHANGED clubs
         ELSE /\ clubs' = IF ById(clubs, reqs[r].id) = 0 THEN clubs
                          ELSE [clubs EXCEPT ![reqs[r].id] = UpdatedClub(@, reqs[r].body)]
              /\ Answer(r, 200)
    /\ UNCHANGED <<users, events, memberships, club_managers, club_roles, faults>>

(***************************************************************************)
(* POST /events (lines 462-473)                                            *)
(***************************************************************************)
RequestPostEvents(bodies, auths) ==
    \E b \in bodies, a \in auths :
        Accept(NewRequest("POST /events", MalformedId, Undefined, b, a))

\* newEvent.status = 'pending'; newEvent.createdAt = new Date()
NewEvent(body, date) ==
    [clubId |-> body.clubId, title |-> body.title, status |-> "pending",
     createdAt |-> date, deleted |-> FALSE]

PostEvents(r) ==
    /\ r \in Requests
    /\ reqs[r].route = "POST /events" /\ reqs[r].pc = "handler"
    /\ \E o \in DbOutcomes :
         IF o = "throw" THEN Answer(r, 500) /\ UNCHANGED events
         ELSE /\ events' = Append(events, NewEvent(reqs[r].body, Now))
              /\ Answer(r, 201)
    /\ UNCHANGED <<users, clubs, memberships, club_managers, club_roles, faults>>

(***************************************************************************)
(* PUT /events/:id (lines 530-548)                                         *)
(***************************************************************************)
RequestPutEvent(ids, bodies, auths) ==
    \E id \in ids, b \in bodies, a \in auths :
        Accept(NewRequest("PUT /events/:id", id, Undefined, b, a))

\* the event the filter { _id } selects (0: none)
EventById(id) == IF ById(events, id) # 0 /\ ~events[id].deleted THEN id ELSE 0

\* delete updatedEvent._id; delete updatedEvent.clubId; $set: updatedEvent
PutEventFields(body) == {f \in {"status", "title"} : body[f] # Undefined}

UpdatedEvent(event, body) ==
    [f \in DOMAIN event |-> IF f \in PutEventFields(body) THEN body[f] ELSE event[f]]

PutEvent(r) ==
    /\ r \in Requests
    /\ reqs[r].route = "PUT /events/:id" /\ reqs[r].pc = "handler"
    /\ \E o \in DbOutcomes, e \in EmptySetOutcomes :
         IF ~IsValidObjectId(reqs[r].id) \/ o = "throw"
         THEN Answer(r, 500) /\ UNCHANGED events
         ELSE IF PutEventFields(reqs[r].body) = {} /\ e = "throw"
         THEN Answer(r, 500) /\ UNCHANGED events
         ELSE /\ events' = IF EventById(reqs[r].id) = 0 THEN events
                           ELSE [events EXCEPT ![reqs[r].id] = UpdatedEvent(@, reqs[r].body)]
              /\ Answer(r, 200)
    /\ UNCHANGED <<users, clubs, memberships, club_managers, club_roles, faults>>

(***************************************************************************)
(* DELETE /events/:id (lines 551-561)                                      *)
(***************************************************************************)
RequestDeleteEvent(ids, auths) ==
    \E id \in ids, a \in auths :
        Accept(NewRequest("DELETE /events/:id", id, Undefined, NoBody, a))

DeleteEvent(r) ==
    /\ r \in Requests
    /\ reqs[r].route = "DELETE /events/:id" /\ reqs[r].pc = "handler"
    /\ \E o \in DbOutcomes :
         IF ~IsValidObjectId(reqs[r].id) \/ o = "throw"
         THEN Answer(r, 500) /\ UNCHANGED events
         ELSE /\ events' = IF EventById(reqs[r].id) = 0 THEN events
                           ELSE [events EXCEPT ![reqs[r].id].deleted = TRUE]
              /\ Answer(r, 200)
    /\ UNCHANGED <<users, clubs, memberships, club_managers, club_roles, faults>>

(***************************************************************************)
(* PATCH /events/:id (lines 610-626)                                       *)
(***************************************************************************)
RequestPatchEvent(ids, bodies, auths) ==
    \E id \in ids, b \in bodies, a \in auths :
        Accept(NewRequest("PATCH /events/:id", id, Undefined, b, a))

\* $set: { status: updatedEvent.status }
PatchEvent(r) ==
    /\ r \in Requests
    /\ reqs[r].route = "PATCH /events/:id" /\ reqs[r].pc = "handler"
    /\ \E o \in DbOutcomes :
         IF ~IsValidObjectId(reqs[r].id) \/ o = "throw"
         THEN Answer(r, 500) /\ UNCHANGED events
         ELSE /\ events' = IF EventById(reqs[r].id) = 0 THEN events
                           ELSE [events EXCEPT ![reqs[r].id].status = ToBson(reqs[r].body.status)]
              /\ Answer(r, 200)
    /\ UNCHANGED <<users, clubs, memberships, club_managers, club_roles, faults>>

(***************************************************************************)
(* Memberships: the state and the requests of the specification            *)
(***************************************************************************)
Membership(clubId, userEmail, status) ==
    [clubId |-> clubId, userEmail |-> userEmail, status |-> status,
     joinedAt |-> 0, deleted |-> FALSE]

\* stored memberships an earlier POST /memberships leaves behind
MemberSeeds == {<<>>, <<Membership(1, Bob, "pending")>>}

InitMembers ==
    /\ users = <<User(Alice, "member"), User(Root, "super_admin")>>
    /\ clubs = <<Club(Alice, "approved")>>
    /\ memberships \in MemberSeeds
    /\ club_managers = <<>> /\ events = <<>> /\ club_roles = <<>>
    /\ reqs = <<>>
    /\ faults = FALSE

MembershipBodies ==
    {[NoBody EXCEPT !.userEmail = Bob, !.clubId = 1, !.status = st] :
        st \in {Undefined, "active"}}

StatusBodies == {[NoBody EXCEPT !.status = st] : st \in {"active", "rejected"}}

NextMembers ==
    \/ RequestPostMemberships(MembershipBodies, {Bearer("tb")})
    \/ RequestPatchMemberStatus({1}, {Bob}, StatusBodies, {Bearer("ta"), NoHeader})
    \/ RequestPatchMembership({1}, StatusBodies, {Bearer("tb")})
    \/ RequestDeleteMembership({1}, {Bearer("tb")})
    \/ \E r \in Requests : verifyFBToken(r)
    \/ \E r \in Requests : PostMembershipsFind(r)
    \/ \E r \in Requests : PostMembershipsInsert(r)
    \/ \E r \in Requests : PatchMemberStatus(r)
    \/ \E r \in Requests : PatchMembership(r)
    \/ \E r \in Requests : DeleteMembership(r)

SpecMembers == InitMembers /\ [][NextMembers]_vars

\* request r is an authenticated approval of the membership of (id, email)
IsApproval(r) ==
    /\ reqs[r].route = "PATCH /clubs/:id/members/:email/status"
    /\ reqs[r].body.status = "active"
    /\ Authenticated(r)

\* the grant g of `coll` is a member grant with a non-empty permission set
MemberGrant(coll, g) == coll[g].role = "member" /\ coll[g].permissions # {}

\* C1: an approval served for a membership that was pending when it arrived
\* leaves exactly one role grant for (clubId, userEmail), with role member and
\* a non-empty permission set; an approval served for a membership that was
\* already active and had its grant leaves that one grant, assignedAt unchanged.
C1_ApprovalGrantsRoleOnce ==
    \A r \in Requests :
        (IsApproval(r) /\ reqs[r].pc = "done") =>
            LET pre == reqs[r].pre
                i == FindMembership(pre.memberships, reqs[r].id, reqs[r].email)
                was == GrantsOf(pre.club_roles, reqs[r].id, reqs[r].email)
                now == GrantsOf(club_roles, reqs[r].id, reqs[r].email)
            IN  /\ (i # 0 /\ pre.memberships[i].status = "pending") =>
                      /\ Cardinality(now) = 1
                      /\ \A g \in now : MemberGrant(club_roles, g)
                /\ (i # 0 /\ pre.memberships[i].status = "active" /\ Cardinality(was) = 1) =>
                      /\ now = was
                      /\ \A g \in now :
                            club_roles[g].assignedAt = pre.club_roles[g].assignedAt

\* C2: whenever no request is in flight, every active membership has a role
\* grant for its (clubId, userEmail) with role member and a non-empty
\* permission set.
C2_ActiveMembershipHasGrant ==
    InFlight = {} =>
        \A i \in 1..Len(memberships) :
            (Live(memberships[i]) /\ memberships[i].status = "active") =>
                \E g \in GrantsOf(club_roles, memberships[i].clubId, memberships[i].userEmail) :
                    MemberGrant(club_roles, g)

(***************************************************************************)
(* Manager applications: the state and the requests of the specification   *)
(***************************************************************************)
Application(email, status) ==
    [email |-> email, name |-> "Ann", reason |-> "r0", photoURL |-> "p0",
     status |-> status, appliedAt |-> 0]

\* stored states an earlier run of POST and PATCH /club-managers leaves behind
ManagerSeeds ==
    {[u |-> <<User(Alice, "member"), User(Root, "super_admin")>>,
      m |-> <<>>],
     [u |-> <<User(Alice, "member"), User(Root, "super_admin")>>,
      m |-> <<Application(Alice, "pending")>>],
     [u |-> <<User(Alice, "member"), User(Root, "super_admin")>>,
      m |-> <<Application(Alice, "rejected")>>],
     [u |-> <<User(Alice, "club_manager"), User(Root, "super_admin")>>,
      m |-> <<Application(Alice, "approved")>>]}

InitManagers ==
    /\ \E s \in ManagerSeeds : users = s.u /\ club_managers = s.m
    /\ clubs = <<>> /\ events = <<>> /\ memberships = <<>> /\ club_roles = <<>>
    /\ reqs = <<>>
    /\ faults = FALSE

ApplicationBodies ==
    {[NoBody EXCEPT !.email = e, !.name = n.name, !.reason = n.reason, !.photoURL = n.photoURL] :
        e \in {Alice, Bob},
        n \in {[name |-> "Anna", reason |-> "r1", photoURL |-> "p1"],
               [name |-> "Anne", reason |-> Undefined, photoURL |-> "p2"],
               [name |-> Undefined, reason |-> "r1", photoURL |-> "p1"]}}

DecisionBodies ==
    {[NoBody EXCEPT !.status = "approved"],
     [NoBody EXCEPT !.status = "rejected"],
     [NoBody EXCEPT !.status = "approved", !.email = Root],
     [NoBody EXCEPT !.email = Bob]}

RoleBodies == {[NoBody EXCEPT !.role = ro] : ro \in {"member", "club_manager"}}

NextManagers ==
    \/ RequestPostClubManagers(ApplicationBodies)
    \/ RequestPatchClubManager({MalformedId, 1, 2}, DecisionBodies,
                               {NoHeader, Bearer("tr"), Bearer("ta"), Bearer("forged")})
    \/ RequestPatchUsersAdmin({1}, RoleBodies, {Bearer("tr"), Bearer("ta")})
    \/ \E r \in Requests : verifyFBToken(r)
    \/ \E r \in Requests : verifySuperAdmin(r)
    \/ \E r \in Requests : PostClubManagersFind(r)
    \/ \E r \in Requests : PostClubManagersReapply(r)
    \/ \E r \in Requests : PostClubManagersInsert(r)
    \/ \E r \in Requests : PatchClubManagerUpdate(r)
    \/ \E r \in Requests : PatchClubManagerFind(r)
    \/ \E r \in Requests : PatchClubManagerPromote(r)
    \/ \E r \in Requests : PatchUsersAdmin(r)

SpecManagers == InitManagers /\ [][NextManagers]_vars


\* the same requests, served one at a time: none arrives while one is in flight
NextManagersSerial ==
    \/ (InFlight = {} /\ RequestPostClubManagers(ApplicationBodies))
    \/ (InFlight = {} /\ RequestPatchClubManager({MalformedId, 1, 2}, DecisionBodies,
                               {NoHeader, Bearer("tr"), Bearer("ta"), Bearer("forged")}))
    \/ (InFlight = {} /\ RequestPatchUsersAdmin({1}, RoleBodies, {Bearer("tr"), Bearer("ta")}))
    \/ \E r \in Requests : verifyFBToken(r)
    \/ \E r \in Requests : verifySuperAdmin(r)
    \/ \E r \in Requests : PostClubManagersFind(r)
    \/ \E r \in Requests : PostClubManagersReapply(r)
    \/ \E r \in Requests : PostClubManagersInsert(r)
    \/ \E r \in Requests : PatchClubManagerUpdate(r)
    \/ \E r \in Requests : PatchClubManagerFind(r)
    \/ \E r \in Requests : PatchClubManagerPromote(r)
    \/ \E r \in Requests : PatchUsersAdmin(r)

SpecManagersSerial == InitManagers /\ [][NextManagersSerial]_vars

(***************************************************************************)
(* Properties of the manager-application lifecycle                         *)
(***************************************************************************)
\* the application the path id of request r named when r arrived (0: none)
ArrivalApplication(r) == ById(reqs[r].pre.club_managers, reqs[r].id)

\* request r is PATCH /club-managers/:id with the body { status: st }
IsDecision(r, st) ==
    /\ reqs[r].route = "PATCH /club-managers/:id"
    /\ reqs[r].body = [NoBody EXCEPT !.status = st]

\* the step in which request r issues the promotion write
PromotionStep(r) ==
    /\ reqs[r].route = "PATCH /club-managers/:id"
    /\ reqs[r].pc = "promote"
    /\ reqs'[r].res = 200

\* C3: approving a manager application promotes to club_manager the user whose
\* email is the one the application stored before the request, whatever the
\* body carries, and changes the role of no other user.
C3_ApprovalPromotesStoredEmail ==
    [][\A r \in Requests :
          (PromotionStep(r) /\ ArrivalApplication(r) # 0) =>
              LET stored == reqs[r].pre.club_managers[reqs[r].id].email
              IN  /\ \A i \in 1..Len(users) :
                        users'[i] # users[i] => users[i].email = stored
                  /\ FindUser(stored) # 0 =>
                        users'[FindUser(stored)].role = "club_manager"]_vars

\* C4: whenever no request is in flight, every approved application has a user
\* record with the application's stored email whose role is club_manager.
C4_ApprovedHasManagerRole ==
    InFlight = {} =>
        \A i \in 1..Len(club_managers) :
            club_managers[i].status = "approved" =>
                \E u \in 1..Len(users) :
                    /\ users[u].email = club_managers[i].email
                    /\ users[u].role = "club_manager"

\* C5: of an approval and a rejection that both arrive while the application is
\* pending, exactly one is answered 200 and the other 409; the application ends
\* approved or rejected, and its user is a club_manager only if it ends approved.
C5_OneDecisionWins ==
    \A r1, r2 \in Requests :
        ( /\ IsDecision(r1, "approved") /\ IsDecision(r2, "rejected")
          /\ reqs[r1].id = reqs[r2].id
          /\ Authenticated(r1) /\ Authenticated(r2)
          /\ ArrivalApplication(r1) # 0 /\ ArrivalApplication(r2) # 0
          /\ reqs[r1].pre.club_managers[reqs[r1].id].status = "pending"
          /\ reqs[r2].pre.club_managers[reqs[r2].id].status = "pending"
          /\ reqs[r1].pc = "done" /\ reqs[r2].pc = "done" ) =>
            LET app == club_managers[reqs[r1].id]
                u == FindUser(app.email)
            IN  /\ {reqs[r1].res, reqs[r2].res} = {200, 409}
                /\ app.status \in {"approved", "rejected"}
                /\ (u # 0 /\ users[u].role = "club_manager") => app.status = "approved"

\* the value stored for a body field by the re-application's $set
StoredValue(v) == IF v = Undefined THEN Null ELSE v

\* C10: (requests served one at a time) POST /club-managers for an email whose
\* application is rejected answers 200 and resets that application to pending
\* with appliedAt set to the time of the request and name, reason and photo
\* overwritten, its email and the other applications unchanged and none added;
\* when the application is approved or pending it answers 409 and no
\* application changes.
C10_ReapplyAfterRejection ==
    LET r == Len(reqs)
    IN  ( /\ r >= 1
          /\ reqs[r].route = "POST /club-managers"
          /\ reqs[r].pc = "done"
          /\ ~Falsy(reqs[r].body.name) /\ ~Falsy(reqs[r].body.email) ) =>
            LET pre == reqs[r].pre.club_managers
                b == reqs[r].body
                i == FindIdx({k \in 1..Len(pre) : pre[k].email = b.email})
            IN  /\ (i # 0 /\ pre[i].status = "rejected") =>
                      /\ reqs[r].res = 200
                      /\ Len(club_managers) = Len(pre)
                      /\ \A j \in 1..Len(pre) : j # i => club_managers[j] = pre[j]
                      /\ club_managers[i] =
                            [email |-> pre[i].email, name |-> b.name,
                             reason |-> StoredValue(b.reason),
                             photoURL |-> StoredValue(b.photoURL),
                             status |-> "pending", appliedAt |-> reqs[r].arrivedAt]
                      /\ club_managers[i].appliedAt > pre[i].appliedAt
                /\ (i # 0 /\ pre[i].status \in {"approved", "pending"}) =>
                      /\ reqs[r].res = 409
                      /\ club_managers = pre

\* a re-application was served: the rejected application is pending again
C10_Witness ==
    \E r \in Requests :
        /\ reqs[r].route = "POST /club-managers" /\ reqs[r].pc = "done"
        /\ reqs[r].res = 200
        /\ \E i \in 1..Len(reqs[r].pre.club_managers) :
              /\ reqs[r].pre.club_managers[i].status = "rejected"
              /\ reqs[r].pre.club_managers[i].email = reqs[r].body.email
              /\ club_managers[i].status = "pending"
              /\ club_managers[i].name # reqs[r].pre.club_managers[i].name


(***************************************************************************)
(* The guards: the state and the requests of their specifications          *)
(***************************************************************************)
\* stored users and clubs: Bob has no user record, Alice owns the first club
GuardSeeds ==
    {[u |-> <<User(Alice, "member"), User(Root, "super_admin")>>,
      c |-> <<Club(Alice, "approved")>>],
     [u |-> <<User(Alice, "club_manager"), User(Root, "super_admin")>>,
      c |-> <<Club(Alice, "pending"),
              Club(Root, "approved")>>],
     [u |-> <<User(Root, "member"), User(Alice, "super_admin")>>,
      c |-> <<>>]}

InitGuards ==
    /\ \E s \in GuardSeeds : users = s.u /\ clubs = s.c
    /\ memberships = <<>> /\ club_managers = <<>> /\ events = <<>> /\ club_roles = <<>>
    /\ reqs = <<>>
    /\ faults = FALSE

Callers == {Bearer("ta"), Bearer("tb"), Bearer("tr")}

NextGuards ==
    \/ RequestClubPermission({MalformedId, 1, 2, 3},
                             {NoBody, [NoBody EXCEPT !.email = Alice, !.userEmail = Alice]},
                             Callers \cup {NoHeader})
    \/ RequestPatchUsersAdmin({1, 2}, RoleBodies \cup {[NoBody EXCEPT !.role = "super_admin"]},
                              Callers \cup {Bearer("forged")})
    \/ \E r \in Requests : verifyFBToken(r)
    \/ \E r \in Requests : verifySuperAdmin(r)
    \/ \E r \in Requests : verifyClubPermission(r)
    \/ \E r \in Requests : PatchUsersAdmin(r)

SpecGuards == InitGuards /\ [][NextGuards]_vars

\* the credential verifier on every header value
NextVerifier ==
    \/ \E a \in AllHeaders :
          AcceptUpTo(NewRequest("PATCH /users/admin/:id", 1, Undefined,
                                [NoBody EXCEPT !.role = "club_manager"], a),
                     MaxVerifierRequests)
    \/ \E r \in Requests : verifyFBToken(r)
    \/ \E r \in Requests : verifySuperAdmin(r)
    \/ \E r \in Requests : PatchUsersAdmin(r)

SpecVerifier == InitGuards /\ [][NextVerifier]_vars


(***************************************************************************)
(* Clubs and events: the state and the requests of the specification       *)
(***************************************************************************)
Event(clubId, status) ==
    [clubId |-> clubId, title |-> "Open day", status |-> status,
     createdAt |-> 0, deleted |-> FALSE]

\* stored clubs and events that earlier requests leave behind
ClubSeeds ==
    {[c |-> <<Club(Alice, "pending")>>, e |-> <<>>],
     [c |-> <<Club(Alice, "approved")>>, e |-> <<Event(1, "pending")>>],
     [c |-> <<Club(Alice, "approved")>>, e |-> <<Event(1, "approved")>>]}

InitClubs ==
    /\ users = <<User(Alice, "club_manager"), User(Root, "super_admin")>>
    /\ \E s \in ClubSeeds : clubs = s.c /\ events = s.e
    /\ memberships = <<>> /\ club_managers = <<>> /\ club_roles = <<>>
    /\ reqs = <<>>
    /\ faults = FALSE

NewClubBodies == {[NoBody EXCEPT !.userEmail = Bob, !.clubName = "Go", !.status = "approved"]}

ClubBodies ==
    {NoBody,
     [NoBody EXCEPT !.status = "approved"],
     [NoBody EXCEPT !.status = "rejected"],
     [NoBody EXCEPT !.status = "archived"],
     [NoBody EXCEPT !.clubName = "Go", !.userEmail = Bob]}

NewEventBodies == {[NoBody EXCEPT !.clubId = 1, !.title = "Gala", !.status = "approved"]}

EventBodies ==
    {NoBody,
     [NoBody EXCEPT !.status = "approved"],
     [NoBody EXCEPT !.status = "rejected"],
     [NoBody EXCEPT !.title = "Gala", !.clubId = 2]}

NextClubs ==
    \/ RequestPostClubs(NewClubBodies)
    \/ RequestPatchClub({MalformedId, 1}, ClubBodies, {Bearer("ta"), Bearer("tb"), Bearer("tr")})
    \/ RequestPostEvents(NewEventBodies, {Bearer("ta")})
    \/ RequestPutEvent({1}, EventBodies, {Bearer("ta"), Bearer("tr")})
    \/ RequestPatchEvent({1}, EventBodies, {Bearer("tb"), Bearer("tr"), NoHeader})
    \/ RequestDeleteEvent({1}, {Bearer("ta")})
    \/ \E r \in Requests : verifyFBToken(r)
    \/ \E r \in Requests : PostClubs(r)
    \/ \E r \in Requests : PatchClub(r)
    \/ \E r \in Requests : PostEvents(r)
    \/ \E r \in Requests : PutEvent(r)
    \/ \E r \in Requests : PatchEvent(r)
    \/ \E r \in Requests : DeleteEvent(r)

SpecClubs == InitClubs /\ [][NextClubs]_vars

(***************************************************************************)
(* Leaving a club: the membership routes on a store that already holds a   *)
(* role grant.  The collections belong to a database that outlives the     *)
(* process, so a grant may be stored when the server starts.               *)
(***************************************************************************)
RoleGrant(clubId, userEmail) ==
    [clubId |-> clubId, userEmail |-> userEmail, role |-> "member",
     permissions |-> {"view"}, assignedAt |-> 0]

LeaveSeeds ==
    {[m |-> <<Membership(1, Bob, "active")>>, g |-> <<RoleGrant(1, Bob)>>],
     [m |-> <<Membership(1, Bob, "pending")>>, g |-> <<RoleGrant(1, Alice)>>],
     [m |-> <<>>, g |-> <<>>]}

InitLeave ==
    /\ users = <<User(Alice, "member"), User(Root, "super_admin")>>
    /\ clubs = <<Club(Alice, "approved")>>
    /\ \E s \in LeaveSeeds : memberships = s.m /\ club_roles = s.g
    /\ club_managers = <<>> /\ events = <<>>
    /\ reqs = <<>>
    /\ faults = FALSE

SpecLeave == InitLeave /\ [][NextMembers]_vars

(***************************************************************************)
(* Approvals whose storage calls may fail                                  *)
(***************************************************************************)
InitPropagation ==
    /\ users = <<User(Alice, "member"), User(Root, "super_admin")>>
    /\ clubs = <<Club(Alice, "approved")>>
    /\ memberships = <<Membership(1, Bob, "pending")>>
    /\ club_managers = <<Application(Alice, "pending")>>
    /\ events = <<>> /\ club_roles = <<>>
    /\ reqs = <<>>
    /\ faults = TRUE

NextPropagation ==
    \/ RequestPatchClubManager({1}, {[NoBody EXCEPT !.status = st] : st \in {"approved", "rejected"}},
                               {Bearer("tr")})
    \/ RequestPatchMemberStatus({1}, {Bob}, StatusBodies, {Bearer("ta")})
    \/ \E r \in Requests : verifyFBToken(r)
    \/ \E r \in Requests : PatchClubManagerUpdate(r)
    \/ \E r \in Requests : PatchClubManagerFind(r)
    \/ \E r \in Requests : PatchClubManagerPromote(r)
    \/ \E r \in Requests : PatchMemberStatus(r)

SpecPropagation == InitPropagation /\ [][NextPropagation]_vars

(***************************************************************************)
(* The guards when the identity authority and the storage may fail         *)
(***************************************************************************)
InitGuardsFaulty ==
    /\ \E s \in GuardSeeds : users = s.u /\ clubs = s.c
    /\ memberships = <<>> /\ club_managers = <<>> /\ events = <<>> /\ club_roles = <<>>
    /\ reqs = <<>>
    /\ faults = TRUE

SpecGuardsFaulty == InitGuardsFaulty /\ [][NextGuards]_vars

(***************************************************************************)
(* The writers of the users collection: registration, profile update, the  *)
(* role route and manager approval                                         *)
(***************************************************************************)
InitUsers ==
    /\ users = <<User(Alice, "member"), User(Root, "super_admin")>>
    /\ club_managers = <<Application(Alice, "pending")>>
    /\ clubs = <<>> /\ memberships = <<>> /\ events = <<>> /\ club_roles = <<>>
    /\ reqs = <<>>
    /\ faults = FALSE

RegistrationBodies ==
    {[NoBody EXCEPT !.email = Bob, !.role = "super_admin", !.name = "n1"]}

ProfileBodies ==
    {[NoBody EXCEPT !.name = "n1", !.role = "super_admin"],
     [NoBody EXCEPT !.photoURL = "p1", !.email = Root]}

NextUsers ==
    \/ RequestPostUsers(RegistrationBodies)
    \/ RequestPatchUserProfile({Alice, Bob}, ProfileBodies, {Bearer("tb"), NoHeader})
    \/ RequestPatchUsersAdmin({1, 2}, {[NoBody EXCEPT !.role = "super_admin"]},
                              {Bearer("tr"), Bearer("ta")})
    \/ RequestPatchClubManager({1}, {[NoBody EXCEPT !.status = "approved", !.role = "super_admin"]},
                               {Bearer("ta")})
    \/ \E r \in Requests : verifyFBToken(r)
    \/ \E r \in Requests : verifySuperAdmin(r)
    \/ \E r \in Requests : PostUsersFind(r)
    \/ \E r \in Requests : PostUsersInsert(r)
    \/ \E r \in Requests : PatchUserProfile(r)
    \/ \E r \in Requests : PatchUsersAdmin(r)
    \/ \E r \in Requests : PatchClubManagerUpdate(r)
    \/ \E r \in Requests : PatchClubManagerFind(r)
    \/ \E r \in Requests : PatchClubManagerPromote(r)

SpecUsers == InitUsers /\ [][NextUsers]_vars

(***************************************************************************)
(* Responses when the identity authority and the storage may fail.  Once   *)
(* the call a request awaits has settled, the event loop runs the          *)
(* request's continuation: every step of an accepted request is weakly     *)
(* fair.                                                                   *)
(***************************************************************************)
InitResponses ==
    /\ users = <<User(Alice, "member"), User(Root, "super_admin")>>
    /\ clubs = <<>> /\ memberships = <<>> /\ club_managers = <<>>
    /\ events = <<>> /\ club_roles = <<>>
    /\ reqs = <<>>
    /\ faults = TRUE

NextResponses ==
    \/ RequestGetPayments({Bearer("ta"), Bearer("forged"), NoHeader})
    \/ RequestPatchUsersAdmin({1, 2}, RoleBodies, {Bearer("tr"), Bearer("ta")})
    \/ \E r \in Requests : verifyFBToken(r)
    \/ \E r \in Requests : verifySuperAdmin(r)
    \/ \E r \in Requests : GetPayments(r)
    \/ \E r \in Requests : PatchUsersAdmin(r)

SpecResponses ==
    /\ InitResponses /\ [][NextResponses]_vars
    /\ \A r \in 1..MaxRequests :
          WF_vars(verifyFBToken(r) \/ verifySuperAdmin(r) \/ GetPayments(r) \/ PatchUsersAdmin(r))

(***************************************************************************)
(* The routes of roles, clubs, events, members and managers together       *)
(***************************************************************************)
Init ==
    /\ users = <<User(Alice, "member"), User(Root, "super_admin")>>
    /\ clubs = <<Club(Alice, "approved")>>
    /\ memberships \in MemberSeeds
    /\ club_managers \in {<<>>, <<Application(Alice, "pending")>>}
    /\ events = <<Event(1, "pending")>> /\ club_roles = <<>>
    /\ reqs = <<>>
    /\ faults = FALSE

Next ==
    \/ RequestPostUsers({[NoBody EXCEPT !.email = Bob, !.role = "super_admin"]})
    \/ RequestPostClubManagers({[NoBody EXCEPT !.email = Alice, !.name = "Anna"]})
    \/ RequestPatchClubManager({1}, {[NoBody EXCEPT !.status = st] : st \in {"approved", "rejected"}},
                               {NoHeader, Bearer("forged"), Bearer("ta")})
    \/ RequestPatchUsersAdmin({1}, {[NoBody EXCEPT !.role = "club_manager"]},
                              {Bearer("tr"), Bearer("ta"), Bearer("forged")})
    \/ RequestClubPermission({1}, {NoBody}, {Bearer("ta"), Bearer("tb"), NoHeader})
    \/ RequestPostMemberships({[NoBody EXCEPT !.userEmail = Bob, !.clubId = 1]},
                              {Bearer("tb"), NoHeader})
    \/ RequestPatchMemberStatus({1}, {Bob}, StatusBodies, {Bearer("ta"), Bearer("forged")})
    \/ RequestPatchMembership({1}, {[NoBody EXCEPT !.status = "active"]},
                              {Bearer("tb"), NoHeader})
    \/ RequestDeleteMembership({1}, {Bearer("tb"), Bearer("forged")})
    \/ RequestPostClubs(NewClubBodies)
    \/ RequestPatchClub({1}, {[NoBody EXCEPT !.status = "rejected"],
                               [NoBody EXCEPT !.clubName = "Go", !.userEmail = Bob]},
                         {Bearer("tb"), NoHeader})
    \/ RequestPostEvents(NewEventBodies, {Bearer("ta"), Bearer("forged")})
    \/ RequestPutEvent({1}, {[NoBody EXCEPT !.title = "Gala"]}, {Bearer("ta"), NoHeader})
    \/ RequestPatchEvent({1}, {[NoBody EXCEPT !.status = "approved"]}, {Bearer("tr"), NoHeader})
    \/ RequestDeleteEvent({1}, {Bearer("ta"), Bearer("forged")})
    \/ \E r \in Requests : verifyFBToken(r)
    \/ \E r \in Requests : verifySuperAdmin(r)
    \/ \E r \in Requests : verifyClubPermission(r)
    \/ \E r \in Requests : PostClubs(r)
    \/ \E r \in Requests : PatchClub(r)
    \/ \E r \in Requests : PostEvents(r)
    \/ \E r \in Requests : PutEvent(r)
    \/ \E r \in Requests : PatchEvent(r)
    \/ \E r \in Requests : DeleteEvent(r)
    \/ \E r \in Requests : PostUsersFind(r)
    \/ \E r \in Requests : PostUsersInsert(r)
    \/ \E r \in Requests : PatchUsersAdmin(r)
    \/ \E r \in Requests : PostClubManagersFind(r)
    \/ \E r \in Requests : PostClubManagersReapply(r)
    \/ \E r \in Requests : PostClubManagersInsert(r)
    \/ \E r \in Requests : PatchClubManagerUpdate(r)
    \/ \E r \in Requests : PatchClubManagerFind(r)
    \/ \E r \in Requests : PatchClubManagerPromote(r)
    \/ \E r \in Requests : PatchMemberStatus(r)
    \/ \E r \in Requests : PostMembershipsFind(r)
    \/ \E r \in Requests : PostMembershipsInsert(r)
    \/ \E r \in Requests : PatchMembership(r)
    \/ \E r \in Requests : DeleteMembership(r)

Spec == Init /\ [][Next]_vars

(***************************************************************************)
(* Properties of the credential verifier and the guards                    *)
(***************************************************************************)
\* request r takes a step
Steps(r) == reqs'[r] # reqs[r]

\* the position of the first blank of h (0: none)
FirstBlank(h) ==
    IF \E k \in 1..Len(h) : h[k] = " "
    THEN CHOOSE k \in 1..Len(h) : h[k] = " " /\ \A j \in 1..(k - 1) : h[j] # " "
    ELSE 0

\* the characters of h between its first blank and the next blank or its end:
\* the token after the scheme word
TokenAfterScheme(h) ==
    LET p == FirstBlank(h)
    IN  IF p = 0 THEN <<>>
        ELSE LET e == CHOOSE k \in (p + 1)..(Len(h) + 1) :
                          /\ (k = Len(h) + 1 \/ h[k] = " ")
                          /\ \A j \in (p + 1)..(k - 1) : h[j] # " "
             IN  SubSeq(h, p + 1, e - 1)

\* the identity authority issued the token
Issued(token) == Len(token) = 1 /\ token[1] \in DOMAIN TokenEmail

\* the header of request r carries no token the identity authority issued
FailsAuthentication(r) ==
    \/ ~reqs[r].authorization.present
    \/ ~Issued(TokenAfterScheme(reqs[r].authorization.value))

\* C6: the club-owner guard, for a well-formed path id, answers 404 when no club
\* has that id and otherwise hands the request on exactly when the club's stored
\* owner email is the caller's verified email, answering 403 when it is not.
C6_ClubOwnerGuardDecision ==
    [][\A r \in Requests :
          ( /\ reqs[r].pc = "verifyClubPermission" /\ Steps(r)
            /\ reqs[r].id \in 1..3 ) =>
              IF reqs[r].id > Len(clubs)
              THEN reqs'[r].pc = "done" /\ reqs'[r].res = 404
              ELSE IF clubs[reqs[r].id].userEmail = reqs[r].user
              THEN reqs'[r].pc = "next" /\ reqs'[r].res = NoResponse
              ELSE reqs'[r].pc = "done" /\ reqs'[r].res = 403]_vars

\* the guard admitted a caller who is not a super admin to a club still pending,
\* whatever the body said
C6_Witness ==
    \E r \in Requests :
        /\ reqs[r].pc = "next" /\ "verifyClubPermission" \in reqs[r].ran
        /\ reqs[r].id \in 1..Len(clubs)
        /\ clubs[reqs[r].id].status = "pending"
        /\ reqs[r].body # NoBody
        /\ \E u \in 1..Len(users) :
              users[u].email = reqs[r].user /\ users[u].role # "super_admin"

\* C7: the super-admin guard hands the request to the handler exactly when a
\* user record is stored for the caller's verified email and its role is
\* super_admin; otherwise, and so when no record is stored, it answers 403 and
\* the handler does not run.
C7_SuperAdminGuardDecision ==
    [][\A r \in Requests :
          (reqs[r].pc = "verifySuperAdmin" /\ Steps(r)) =>
              IF \E i \in 1..Len(users) :
                    /\ users[i].email = reqs[r].user
                    /\ \A j \in 1..(i - 1) : users[j].email # reqs[r].user
                    /\ users[i].role = "super_admin"
              THEN reqs'[r].pc = "handler" /\ reqs'[r].res = NoResponse
              ELSE /\ reqs'[r].pc = "done" /\ reqs'[r].res = 403
                   /\ "handler" \notin reqs'[r].ran]_vars

\* a verified caller without a user record was answered 403 by the guard
C7_Witness ==
    \E r \in Requests :
        /\ reqs[r].route = "PATCH /users/admin/:id"
        /\ reqs[r].user # Undefined
        /\ \A i \in 1..Len(users) : users[i].email # reqs[r].user
        /\ reqs[r].pc = "done" /\ reqs[r].res = 403
        /\ reqs[r].ran = {"verifyFBToken", "verifySuperAdmin"}

\* C8: the credential verifier answers 401 when the Authorization header is
\* absent or holds no token after the scheme word, 403 when the identity
\* authority did not issue the token, and otherwise sets the request's
\* principal to the token's email and hands the request on.
C8_CredentialVerifierOutcome ==
    [][\A r \in Requests :
          (reqs[r].pc = "verifyFBToken" /\ Steps(r)) =>
              LET a == reqs[r].authorization
                  token == TokenAfterScheme(a.value)
              IN  IF ~a.present \/ token = <<>>
                  THEN /\ reqs'[r].pc = "done" /\ reqs'[r].res = 401
                       /\ reqs'[r].user = Undefined
                  ELSE IF ~Issued(token)
                  THEN /\ reqs'[r].pc = "done" /\ reqs'[r].res = 403
                       /\ reqs'[r].user = Undefined
                  ELSE /\ reqs'[r].pc = Chain(reqs[r].route)[2]
                       /\ reqs'[r].res = NoResponse
                       /\ reqs'[r].user = TokenEmail[token[1]]]_vars

\* a header that holds the scheme word and a blank and no token was answered 401
C8_Witness ==
    \E r \in Requests :
        /\ reqs[r].authorization = Header(<<"Bearer", " ">>)
        /\ reqs[r].pc = "done" /\ reqs[r].res = 401

\* C9: a request that fails authentication on a route registered with
\* verifyFBToken runs no stage but the verifier, is answered 401 or 403, and its
\* step leaves every collection as it was.
C9_FailedAuthenticationStopsRequest ==
    [][\A r \in Requests :
          (Chain(reqs[r].route)[1] = "verifyFBToken" /\ FailsAuthentication(r)) =>
              /\ reqs'[r].ran \subseteq {"verifyFBToken"}
              /\ reqs'[r].pc \in {"verifyFBToken", "done"}
              /\ Steps(r) => (db' = db /\ reqs'[r].res \in {401, 403})]_vars

\* a request with a forged token for a guarded route was answered 403 while
\* memberships and applications were stored
C9_Witness ==
    \E r \in Requests :
        /\ reqs[r].route = "PATCH /users/admin/:id"
        /\ reqs[r].authorization = Bearer("forged")
        /\ reqs[r].pc = "done" /\ reqs[r].res = 403
        /\ memberships # <<>> /\ club_managers # <<>>

(***************************************************************************)
(* Properties of the lifecycles                                            *)
(***************************************************************************)
\* C11: an approved manager application stays approved in every step.
C11_ApprovedIsTerminal ==
    [][\A i \in 1..Len(club_managers) :
          club_managers[i].status = "approved" =>
              club_managers'[i].status = "approved"]_vars

\* the legal-transition table of each kind of entity
LegalTransitions(kind) ==
    CASE kind = "club" -> {<<"pending", "approved">>, <<"pending", "rejected">>}
      [] kind = "event" -> {<<"pending", "approved">>, <<"pending", "rejected">>}
      [] kind = "membership" -> {<<"pending", "active">>, <<"pending", "rejected">>}
      [] kind = "application" -> {<<"pending", "approved">>, <<"pending", "rejected">>,
                                  <<"rejected", "pending">>}

\* every change of the status of a document of `coll` in this step is legal
LegalStep(kind, coll, collNext) ==
    \A i \in 1..Len(coll) :
        collNext[i].status # coll[i].status =>
            <<coll[i].status, collNext[i].status>> \in LegalTransitions(kind)

\* the handler step of request r asks to move document reqs[r].id of `coll`
\* to a status that is not legal from its current one
AsksIllegal(r, route, kind, coll) ==
    /\ reqs[r].route = route /\ reqs[r].pc = "handler"
    /\ reqs[r].id \in 1..Len(coll)
    /\ reqs[r].body.status # Undefined
    /\ reqs[r].body.status # coll[reqs[r].id].status
    /\ <<coll[reqs[r].id].status, reqs[r].body.status>> \notin LegalTransitions(kind)

\* C12: no step changes the status of a club, an event, a membership or a
\* manager application along an edge that is not in its legal-transition table,
\* and a status-change request that asks for such an edge is answered with a
\* failure, whoever the caller is.
C12_IllegalTransitionRejected ==
    [][ /\ LegalStep("club", clubs, clubs')
        /\ LegalStep("event", events, events')
        /\ LegalStep("membership", memberships, memberships')
        /\ LegalStep("application", club_managers, club_managers')
        /\ \A r \in Requests :
              ( /\ Steps(r)
                /\ \/ AsksIllegal(r, "PATCH /clubs/:id", "club", clubs)
                   \/ AsksIllegal(r, "PATCH /events/:id", "event", events)
                   \/ AsksIllegal(r, "PUT /events/:id", "event", events)
                   \/ AsksIllegal(r, "PATCH /memberships/:id", "membership", memberships)
                   \/ AsksIllegal(r, "PATCH /club-managers/:id", "application", club_managers) ) =>
                  reqs'[r].res >= 400 ]_vars

\* request r is PATCH /clubs/:id/members/:email/status with the status st
IsMemberDecision(r, st) ==
    /\ reqs[r].route = "PATCH /clubs/:id/members/:email/status"
    /\ reqs[r].body.status = st
    /\ Authenticated(r)

\* the membership of (id, email) was pending when request r arrived
ArrivedOnPending(r) ==
    LET i == FindMembership(reqs[r].pre.memberships, reqs[r].id, reqs[r].email)
    IN  i # 0 /\ reqs[r].pre.memberships[i].status = "pending"

\* C13: of an approval and a rejection of the same membership that both arrive
\* while it is pending, exactly one modifies the membership; the other modifies
\* nothing and is answered 409; a role grant for (clubId, userEmail) exists only
\* if the membership ends active.
C13_OneMemberDecisionWins ==
    \A r1, r2 \in Requests :
        ( /\ IsMemberDecision(r1, "active") /\ IsMemberDecision(r2, "rejected")
          /\ reqs[r1].id = reqs[r2].id /\ reqs[r1].email = reqs[r2].email
          /\ ArrivedOnPending(r1) /\ ArrivedOnPending(r2)
          /\ reqs[r1].pc = "done" /\ reqs[r2].pc = "done" ) =>
            LET i == FindMembership(memberships, reqs[r1].id, reqs[r1].email)
            IN  /\ reqs[r1].loc.modifiedCount + reqs[r2].loc.modifiedCount = 1
                /\ \A r \in {r1, r2} : reqs[r].loc.modifiedCount = 0 => reqs[r].res = 409
                /\ GrantsOf(club_roles, reqs[r1].id, reqs[r1].email) # {} =>
                      (i # 0 /\ memberships[i].status = "active")

(***************************************************************************)
(* Properties of the capability checks                                     *)
(***************************************************************************)
\* a user record with role super_admin is stored for the email
IsSuperAdmin(email) ==
    \E i \in 1..Len(users) : users[i].email = email /\ users[i].role = "super_admin"

\* C14: a step of PATCH /club-managers/:id changes an application or a user only
\* when the request has passed the super-admin guard, and the request of an
\* authenticated caller who is not a super admin is answered 403.
C14_DecisionNeedsSuperAdmin ==
    [][\A r \in Requests :
          (reqs[r].route = "PATCH /club-managers/:id" /\ Steps(r)) =>
              /\ (club_managers' # club_managers \/ users' # users) =>
                    ("verifySuperAdmin" \in reqs[r].ran /\ IsSuperAdmin(reqs[r].user))
              /\ ( /\ reqs[r].user # Undefined /\ ~IsSuperAdmin(reqs[r].user)
                   /\ reqs'[r].pc = "done" ) => reqs'[r].res = 403]_vars

\* C15: a step changes the status of a club or of an event only when it is the
\* step of a request whose verified caller has role super_admin.
C15_StatusChangeNeedsSuperAdmin ==
    [][\A r \in Requests :
          ( /\ Steps(r)
            /\ \/ \E i \in 1..Len(clubs) : clubs'[i].status # clubs[i].status
               \/ \E i \in 1..Len(events) : events'[i].status # events[i].status ) =>
              IsSuperAdmin(reqs[r].user)]_vars

\* C16: a step of PATCH /clubs/:id changes a club only when the caller's
\* verified email is the club's stored owner email, and the request of any other
\* authenticated caller for a stored club is answered 403.
C16_ClubUpdateNeedsOwner ==
    [][\A r \in Requests :
          ( /\ reqs[r].route = "PATCH /clubs/:id" /\ reqs[r].pc = "handler" /\ Steps(r)
            /\ reqs[r].id \in 1..Len(clubs)
            /\ clubs[reqs[r].id].userEmail # reqs[r].user ) =>
              /\ clubs' = clubs
              /\ reqs'[r].res = 403]_vars

\* the principal has a capability on the club: it owns the club, is a super
\* admin, or holds a role grant of the club
HasClubCapability(email, clubId) ==
    \/ clubId \in 1..Len(clubs) /\ clubs[clubId].userEmail = email
    \/ IsSuperAdmin(email)
    \/ GrantsOf(club_roles, clubId, email) # {}

\* C17: a step of PATCH /clubs/:id/members/:email/status or PATCH
\* /memberships/:id changes the status of a membership, or writes a role grant,
\* only when the request has passed a guard and its verified caller has a
\* capability on the membership's club.
C17_MembershipDecisionNeedsCapability ==
    [][\A r \in Requests :
          ( /\ reqs[r].route \in {"PATCH /clubs/:id/members/:email/status",
                                  "PATCH /memberships/:id"}
            /\ Steps(r) ) =>
              /\ \A i \in 1..Len(memberships) :
                    memberships'[i].status # memberships[i].status =>
                        /\ reqs[r].ran \cap {"verifyClubPermission", "verifySuperAdmin"} # {}
                        /\ HasClubCapability(reqs[r].user, memberships[i].clubId)
              /\ club_roles' # club_roles =>
                    HasClubCapability(reqs[r].user, reqs[r].id)]_vars

C19_StatusInEnumeration ==
    /\ \A i \in 1..Len(clubs) : clubs[i].status \in {"pending", "approved", "rejected"}
    /\ \A i \in 1..Len(events) : events[i].status \in {"pending", "approved", "rejected"}
    /\ \A i \in 1..Len(memberships) :
          memberships[i].status \in {"pending", "active", "rejected"}
    /\ \A i \in 1..Len(club_managers) :
          club_managers[i].status \in {"pending", "approved", "rejected"}

\* C20: a step changes club_roles only as the step of an approval (status
\* active) of a membership that this request's update modified, and then only
\* the grant of that membership's (clubId, userEmail); every stored grant is
\* that of a pair some such approval modified.
C20_GrantOnlyByActivation ==
    [][ /\ club_roles' # club_roles =>
              \E r \in Requests :
                  /\ Steps(r)
                  /\ reqs[r].route = "PATCH /clubs/:id/members/:email/status"
                  /\ reqs[r].body.status = "active"
                  /\ reqs[r].loc.modifiedCount > 0
                  /\ \A g \in 1..Len(club_roles) :
                        (club_roles[g].clubId # reqs[r].id \/ club_roles[g].userEmail # reqs[r].email)
                            => club_roles'[g] = club_roles[g]
                  /\ \A g \in (Len(club_roles) + 1)..Len(club_roles') :
                        /\ club_roles'[g].clubId = reqs[r].id
                        /\ club_roles'[g].userEmail = reqs[r].email
        /\ \A g \in 1..Len(club_roles') :
              \E r \in Requests :
                  /\ reqs'[r].route = "PATCH /clubs/:id/members/:email/status"
                  /\ reqs'[r].body.status = "active"
                  /\ reqs'[r].id = club_roles'[g].clubId
                  /\ reqs'[r].email = club_roles'[g].userEmail
                  /\ reqs'[r].loc.modifiedCount > 0 ]_vars

\* an approval modified a pending membership and PATCH /memberships/:id then
\* changed its status, both answered: no other operation has written club_roles
C20_Witness ==
    \E r1, r2 \in Requests :
        /\ IsMemberDecision(r1, "active") /\ reqs[r1].pc = "done"
        /\ reqs[r1].loc.modifiedCount > 0
        /\ reqs[r2].route = "PATCH /memberships/:id"
        /\ reqs[r2].pc = "done" /\ reqs[r2].res = 200
        /\ MembershipById(reqs[r2].id) # 0
        /\ memberships[reqs[r2].id].status = reqs[r2].body.status
        /\ club_roles = <<>>

(***************************************************************************)
(* Properties of the side effects                                          *)
(***************************************************************************)
\* C21: the step in which DELETE /memberships/:id is served removes the
\* membership its id names and changes no role grant, and once the request is
\* answered every pair (clubId, userEmail) that had a role grant when the
\* request arrived still has one.
C21_LeaveKeepsRoleGrant ==
    [][\A r \in Requests :
          reqs[r].route = "DELETE /memberships/:id" =>
              /\ (Steps(r) /\ reqs[r].pc = "handler") =>
                    /\ club_roles' = club_roles
                    /\ reqs'[r].res = 200 =>
                          \A i \in 1..Len(memberships) :
                              /\ i = reqs[r].id => ~Live(memberships'[i])
                              /\ i # reqs[r].id => memberships'[i] = memberships[i]
              /\ reqs'[r].pc = "done" =>
                    \A g \in 1..Len(reqs[r].pre.club_roles) :
                        GrantsOf(club_roles', reqs[r].pre.club_roles[g].clubId,
                                 reqs[r].pre.club_roles[g].userEmail) # {}]_vars

\* an active membership that had a role grant was deleted while an approval of
\* the same membership was being served: the grant is still stored
C21_Witness ==
    \E r1, r2 \in Requests :
        /\ reqs[r1].route = "DELETE /memberships/:id"
        /\ reqs[r1].pc = "done" /\ reqs[r1].res = 200
        /\ reqs[r1].pre.memberships # <<>>
        /\ reqs[r1].pre.memberships[reqs[r1].id].status = "active"
        /\ ~Live(memberships[reqs[r1].id])
        /\ IsMemberDecision(r2, "active") /\ reqs[r2].pc = "handler"
        /\ reqs[r2].arrivedAt < reqs[r1].arrivedAt
        /\ GrantsOf(club_roles, 1, Bob) # {}

\* C22: a step that promotes a user or writes a role grant is a step of a
\* request whose status write was applied in an earlier step, and it changes
\* no application and no membership; the step in which the derived write of an
\* approval fails leaves the status the approval wrote.
C22_DerivedWriteAfterPrimary ==
    [][\A r \in Requests :
          Steps(r) =>
              /\ (reqs[r].route = "PATCH /club-managers/:id" /\ users' # users) =>
                    /\ "handler" \in reqs[r].ran
                    /\ club_managers' = club_managers
              /\ ( /\ reqs[r].route = "PATCH /clubs/:id/members/:email/status"
                   /\ club_roles' # club_roles ) =>
                    /\ "handler" \in reqs[r].ran
                    /\ memberships' = memberships
              /\ ( /\ reqs[r].route = "PATCH /club-managers/:id"
                   /\ reqs[r].pc \in {"findApplication", "promote"}
                   /\ reqs'[r].res = 500 ) =>
                    /\ club_managers' = club_managers
                    /\ users' = users
              /\ ( /\ reqs[r].route = "PATCH /clubs/:id/members/:email/status"
                   /\ reqs'[r].loc.modifiedCount > 0
                   /\ reqs'[r].res = 500 ) =>
                    LET i == FindMembership(memberships', reqs[r].id, reqs[r].email)
                    IN  i # 0 /\ memberships'[i].status = reqs[r].body.status]_vars

\* the promotion write of an approval failed: the request was answered 500, the
\* application is approved and its user is not a club manager
C22_Witness ==
    \E r \in Requests :
        /\ IsDecision(r, "approved")
        /\ reqs[r].pc = "done" /\ reqs[r].res = 500
        /\ "promote" \in reqs[r].ran
        /\ club_managers[reqs[r].id].status = "approved"
        /\ \A u \in 1..Len(users) :
              users[u].email = club_managers[reqs[r].id].email => users[u].role = "member"

\* C23: an approval whose status write was applied and whose derived write then
\* failed is not answered 500, the answer given when the status write fails.
C23_PropagationFailureIsDistinct ==
    \A r \in Requests :
        reqs[r].pc = "done" =>
            /\ ( /\ reqs[r].route = "PATCH /club-managers/:id"
                 /\ "promote" \in reqs[r].ran ) => reqs[r].res # 500
            /\ ( /\ reqs[r].route = "PATCH /clubs/:id/members/:email/status"
                 /\ reqs[r].body.status = "active"
                 /\ reqs[r].loc.modifiedCount > 0 ) => reqs[r].res # 500

\* C24: the step in which the super-admin guard finds no super_admin record for
\* the caller, or the club-owner guard finds no club or a club of another
\* owner, answers the request with 403 or 404 and changes no collection; the
\* handler never runs for that request, which takes no further step.
C24_GuardDenialChangesNothing ==
    [][\A r \in Requests :
          /\ ( /\ Steps(r)
               /\ \/ /\ reqs[r].pc = "verifySuperAdmin"
                     /\ ~\E i \in 1..Len(users) :
                           /\ users[i].email = reqs[r].user
                           /\ \A j \in 1..(i - 1) : users[j].email # reqs[r].user
                           /\ users[i].role = "super_admin"
                  \/ /\ reqs[r].pc = "verifyClubPermission"
                     /\ IsValidObjectId(reqs[r].id) /\ reqs[r].id # NoParam
                     /\ \/ reqs[r].id \notin 1..Len(clubs)
                        \/ clubs[reqs[r].id].userEmail # reqs[r].user ) =>
                /\ db' = db
                /\ reqs'[r].pc = "done" /\ reqs'[r].res \in {403, 404}
                /\ reqs'[r].ran \cap {"handler", "next"} = {}
          /\ reqs[r].pc = "done" => reqs'[r] = reqs[r]]_vars

\* a member sent PATCH /users/admin/:id, was answered 403 by the guard, and the
\* user the request named has the role it had
C24_Witness ==
    \E r \in Requests :
        /\ reqs[r].route = "PATCH /users/admin/:id"
        /\ reqs[r].pc = "done" /\ reqs[r].res = 403
        /\ reqs[r].ran = {"verifyFBToken", "verifySuperAdmin"}
        /\ \E u \in 1..Len(users) : users[u].email = reqs[r].user /\ users[u].role = "member"
        /\ reqs[r].id \in 1..Len(users)
        /\ users[reqs[r].id].role # reqs[r].body.role

\* C25: the club-owner guard answers 400 to a path id that is present and is
\* not a valid object id.
C25_MalformedClubIdIsInvalidInput ==
    [][\A r \in Requests :
          ( /\ Steps(r) /\ reqs[r].pc = "verifyClubPermission"
            /\ reqs[r].id # NoParam /\ ~IsValidObjectId(reqs[r].id) ) =>
              reqs'[r].res = 400]_vars

(***************************************************************************)
(* Properties of creation                                                  *)
(***************************************************************************)
\* C26: no two stored memberships of the same (clubId, userEmail) are both
\* pending or active.
C26_OneOpenMembershipPerPair ==
    \A i, j \in 1..Len(memberships) :
        ( /\ i # j /\ Live(memberships[i]) /\ Live(memberships[j])
          /\ memberships[i].clubId = memberships[j].clubId
          /\ memberships[i].userEmail = memberships[j].userEmail ) =>
            ~( /\ memberships[i].status \in {"pending", "active"}
               /\ memberships[j].status \in {"pending", "active"} )

\* C27: no two stored manager applications of the same email are both pending
\* or approved.
C27_OneLiveApplicationPerEmail ==
    \A i, j \in 1..Len(club_managers) :
        (i # j /\ club_managers[i].email = club_managers[j].email) =>
            ~( /\ club_managers[i].status \in {"pending", "approved"}
               /\ club_managers[j].status \in {"pending", "approved"} )

\* the document a step appends to `coll`, if it appends one, has status pending
CreatedPending(coll, collNext) ==
    Len(collNext) > Len(coll) => collNext[Len(collNext)].status = "pending"

\* C28: every club, event, membership and manager application is stored with
\* status pending by the step that creates it.
C28_CreatedPending ==
    [][ /\ CreatedPending(clubs, clubs')
        /\ CreatedPending(events, events')
        /\ CreatedPending(memberships, memberships')
        /\ CreatedPending(club_managers, club_managers') ]_vars

\* the handler step of request r on `route` names, by a well-formed id, a
\* document that `coll` does not hold
NamesAbsent(r, route, coll) ==
    /\ reqs[r].route = route /\ reqs[r].pc = "handler"
    /\ IsValidObjectId(reqs[r].id)
    /\ reqs[r].id \notin 1..Len(coll)

\* C29: an approve/reject request that names an application, a club, an event
\* or a membership that is not stored is answered 404 and changes no
\* collection.
C29_AbsentEntityIsNotFound ==
    [][\A r \in Requests :
          ( /\ Steps(r)
            /\ \/ NamesAbsent(r, "PATCH /club-managers/:id", club_managers)
               \/ NamesAbsent(r, "PATCH /clubs/:id", clubs)
               \/ NamesAbsent(r, "PATCH /events/:id", events)
               \/ /\ reqs[r].route = "PATCH /clubs/:id/members/:email/status"
                  /\ reqs[r].pc = "handler"
                  /\ reqs[r].body.status \in {"active", "rejected"}
                  /\ FindMembership(memberships, reqs[r].id, reqs[r].email) = 0 ) =>
              /\ reqs'[r].res = 404
              /\ db' = db]_vars

\* C30: every step of the credential verifier and of a guard either answers the
\* request with an error, or hands it on, and hands it on only when the
\* authority issued the token, the caller's record is a super admin's, or the
\* club found is the caller's: a failed call never admits and never leaves the
\* request without an answer.
C30_GuardsFailClosed ==
    [][\A r \in Requests :
          ( /\ Steps(r)
            /\ reqs[r].pc \in {"verifyFBToken", "verifySuperAdmin", "verifyClubPermission"} ) =>
              \/ /\ reqs'[r].pc = "done"
                 /\ reqs'[r].res \in {400, 401, 403, 404, 500}
                 /\ db' = db
              \/ /\ reqs'[r].pc = NextStage(reqs[r].route, reqs[r].pc)
                 /\ reqs'[r].res = NoResponse
                 /\ CASE reqs[r].pc = "verifyFBToken" ->
                             /\ reqs[r].authorization.present
                             /\ Issued(TokenAfterScheme(reqs[r].authorization.value))
                      [] reqs[r].pc = "verifySuperAdmin" -> IsSuperAdmin(reqs[r].user)
                      [] reqs[r].pc = "verifyClubPermission" ->
                             /\ reqs[r].id \in 1..Len(clubs)
                             /\ clubs[reqs[r].id].userEmail = reqs[r].user]_vars

(***************************************************************************)
(* C31: in every reachable state there is at most one user record per      *)
(* email, also when two registrations for the same email run concurrently. *)
(***************************************************************************)
C31_OneRecordPerEmail ==
    \A i, j \in 1..Len(users) : users[i].email = users[j].email => i = j

(***************************************************************************)
(* C32: every accepted request eventually receives its response, also when *)
(* the user lookup of the super-admin guard or the query of GET /payments  *)
(* fails.                                                                  *)
(***************************************************************************)
C32_EveryRequestAnswered ==
    \A r \in 1..MaxRequests :
        (r \in Requests) ~> (r \in Requests /\ reqs[r].pc = "done")

\* the membership the request addresses was active, with no role grant
\* stored for its member in its club, when the request arrived
ArrivedOnDrift(r) ==
    LET i == FindMembership(reqs[r].pre.memberships, reqs[r].id, reqs[r].email)
    IN  /\ i # 0 /\ reqs[r].pre.memberships[i].status = "active"
        /\ ~ \E g \in 1..Len(reqs[r].pre.club_roles) :
               /\ reqs[r].pre.club_roles[g].userEmail = reqs[r].email
               /\ reqs[r].pre.club_roles[g].clubId = reqs[r].id

(***************************************************************************)
(* C33: an approval repeated on a membership that is already active but    *)
(* has no role grant performs the role-grant write: once such a request is *)
(* answered with success, the member's grant is stored.                    *)
(***************************************************************************)
C33_RetryRepairsGrant ==
    \A r \in Requests :
        (IsApproval(r) /\ ArrivedOnDrift(r) /\ reqs[r].pc = "done" /\ reqs[r].res = 200)
            => \E g \in 1..Len(club_roles) :
                  /\ club_roles[g].userEmail = reqs[r].email
                  /\ club_roles[g].clubId = reqs[r].id
                  /\ MemberGrant(club_roles, g)

\* user i has the role super_admin in the next state and had not before
GainsSuperAdmin(i) ==
    /\ users'[i].role = "super_admin"
    /\ (i > Len(users) \/ users[i].role # "super_admin")

(***************************************************************************)
(* C34: a user gains the role super_admin only in a step of a PATCH        *)
(* /users/admin/:id request that passed verifyFBToken and                  *)
(* verifySuperAdmin; registration stores role member whatever the body     *)
(* says, a profile update changes no role and no email, and a manager      *)
(* approval writes no role but club_manager.                               *)
(***************************************************************************)
C34_SuperAdminOnlyBySuperAdmin ==
    [][/\ \A i \in 1..Len(users') :
             GainsSuperAdmin(i) =>
                 \E r \in Requests :
                     /\ Steps(r) /\ reqs[r].route = "PATCH /users/admin/:id"
                     /\ reqs[r].pc = "handler"
                     /\ {"verifyFBToken", "verifySuperAdmin"} \subseteq reqs[r].ran
       /\ \A r \in Requests :
             /\ (Steps(r) /\ reqs[r].route = "POST /users") =>
                    /\ \A i \in 1..Len(users) : users'[i] = users[i]
                    /\ \A i \in Len(users) + 1..Len(users') : users'[i].role = "member"
             /\ (Steps(r) /\ reqs[r].route = "PATCH /users/:email") =>
                    /\ Len(users') = Len(users)
                    /\ \A i \in 1..Len(users) :
                          users'[i].role = users[i].role /\ users'[i].email = users[i].email
             /\ (Steps(r) /\ reqs[r].route = "PATCH /club-managers/:id") =>
                    /\ Len(users') = Len(users)
                    /\ \A i \in 1..Len(users) :
                          users'[i].role \in {users[i].role, "club_manager"}]_vars

\* a registration whose body asked for super_admin stored a member, and a
\* profile update whose body asked for super_admin changed the name only
C34_Witness ==
    /\ Len(reqs) = 2
    /\ reqs[1].route = "POST /users" /\ reqs[1].res = 201
    /\ reqs[2].route = "PATCH /users/:email" /\ reqs[2].res = 200
    /\ reqs[2].email = Bob /\ reqs[2].body.role = "super_admin"
    /\ Len(users) = 3
    /\ users[3] = [email |-> Bob, role |-> "member", name |-> "n1", photoURL |-> Null]

(***************************************************************************)
(* C35: manager application and approval never lower a privilege: a step   *)
(* of a POST /club-managers or PATCH /club-managers/:id request leaves     *)
(* every super_admin its role and changes a role only from member to       *)
(* club_manager.                                                           *)
(***************************************************************************)
C35_ApprovalNeverDemotes ==
    [][\A r \in Requests :
          (Steps(r) /\ reqs[r].route \in {"POST /club-managers", "PATCH /club-managers/:id"}) =>
              /\ Len(users') = Len(users)
              /\ \A i \in 1..Len(users) :
                    \/ users'[i].role = users[i].role
                    \/ users[i].role = "member" /\ users'[i].role = "club_manager"]_vars

====
